---------------------------- MODULE Spec2Model ----------------------------
(***************************************************************************)
(* Model of the Gemini key-rotation proxy (andclear/baojimi).              *)
(*                                                                         *)
(* Three chat-completion handlers are modelled from the source:            *)
(*   "node"  - src/pages/api/v1/chat/completions.ts                        *)
(*   "edge"  - src/pages/api/v1/chat/completions-edge.ts, lines 1-612      *)
(*   "edge2" - src/pages/api/v1/chat/completions-edge.ts, lines 613-1094   *)
(*             (the second copy held by the same file)                     *)
(*                                                                         *)
(* Spec      : one chat-completion request, from authentication to the     *)
(*             response, with the failover loop over the credentials.      *)
(* ChunkSpec : the fake-stream chunking loop of handleFakeStream.          *)
(***************************************************************************)
EXTENDS Integers, Sequences, FiniteSets, TLC

VARIABLES
    handler,          \* which handler serves the request
    request,          \* [auth, bodyOk, stream]: the inbound request
    streamingConfig,  \* system_settings.streaming_config: [enabled, fake_stream_enabled]
    geminiKeys,       \* table gemini_keys: id -> [is_active, is_valid]
    kvCache,          \* kv entry gemini_keys_cache: a list of key ids, <<>> when absent
    pc,               \* position of the handler
    accessKeyId,      \* result of validateAccessKey
    availableKeys,    \* result of getAllAvailableGeminiKeys
    shuffledKeys,     \* the list the loop iterates
    idx,              \* position of the loop in shuffledKeys (1-based)
    triedKeys,        \* triedKeys of the handler
    lastError,        \* lastError of the handler (NoError when null)
    inflight,         \* the upstream call awaited right now (NoCall when none)
    upstreamCalls,    \* every upstream call issued: <<[key, strategy]>>
    upstreamResults,  \* how each attempt ended: <<[key, error, kind]>>, NoError for a
                      \* success, kind the upstream outcome
    usageCalls,       \* updateKeyUsage invocations: key id -> count
    callLogs,         \* logApiCall invocations, in order
    invalidated,      \* keys markKeyAsInvalid was invoked for
    res,              \* the response as the caller sees it
    headerWrites,     \* attempts to start a response (writeHead / status().json / new Response)
    lateAttempts,     \* upstream calls issued while a response was already started
    storageFaults,    \* whether the storage calls of the side effects may fail
    effectFailed,     \* whether a side effect (usage update, log, invalidation) failed
    fullText,         \* handleFakeStream: the upstream text, a sequence of code units
    fsVariant,        \* handleFakeStream: "edge" (lines 185-326) or "edge2" (lines 757-838)
    fsPc,             \* handleFakeStream: position of the stream's start() callback
    currentIndex,     \* handleFakeStream: currentIndex
    emitted,          \* handleFakeStream: texts of the content chunks enqueued, in order
    frames,           \* handleFakeStream: kinds of all frames enqueued, in order
    streamClosed,     \* handleFakeStream: streamClosed (set by cancel())
    cancelled,        \* handleFakeStream: the caller cancelled the response stream
    fsTick,           \* handleFakeStream: flips with every pass of the chunking loop
    rsVariant,        \* real stream: "node", "edge" (lines 53-182) or "edge2" (lines 665-754)
    rsPc,             \* real stream: position of the task that writes the stream
    upstream,         \* real stream: [chunks, ending] of result.stream
    rsIndex,          \* real stream: number of upstream chunks consumed
    rsFrames,         \* real stream: the frames written to the response, in order
    hasContent,       \* handleRealStream: hasContent
    accumulatedText,  \* handleRealStream: accumulatedText
    rsClosed,         \* handleRealStream: streamClosed
    rsCancelled,      \* real stream: the caller cancelled the response stream
    rsEnd,            \* real stream: how the loop over result.stream was left
    ldPc,             \* getAllAvailableGeminiKeys: position of each call
    ldKeys,           \* getAllAvailableGeminiKeys: keys of each call
    ldResult,         \* getAllAvailableGeminiKeys: what each call returned or threw
    ldSeen,           \* the keys that were active and valid at some time during each call
    ldDbFailed,       \* whether the select of each call's fetchKeysFromDb failed
    ldAfterMark,      \* whether each call started after markKeyAsInvalid had completed
    mkPc,             \* markKeyAsInvalid: position
    mkKey,            \* markKeyAsInvalid: keyId (None before the call)
    adminOps,         \* number of PUT / DELETE requests served by admin/gemini-keys
    cacheExpired,     \* whether the kv entry has expired once (CACHE_TTL)
    cvHandler,        \* request building: the handler that builds the upstream request
    cvMessages,       \* request building: requestBody.messages, <<[role, content]>>
    cvDisguise,       \* request building: what getDisguiseEnabled returns
    cvContents,       \* request building: geminiRequest.contents, each entry with the
                      \* position of its message
    cvPc,             \* request building: "start", "built", then "rebuilt"
    cvEarlier,        \* request building: geminiRequest.contents of an earlier request
                      \* with the same body
    mdMethod,         \* models endpoint: req.method
    mdListing,        \* models endpoint: what the provider's model listing answers
    mdPc,             \* models endpoint: position of the handler
    mdApiKey,         \* models endpoint: the row whose api_key is used (None before)
    mdRes,            \* models endpoint: the response, [status, data]
    callLogRows,      \* table call_logs: the rows, each named by its timestamp
    logClock,         \* the timestamp of the newest row written so far
    logPc,            \* logApiCall: position of each call
    oldLogs,          \* logApiCall: oldLogs of each call, a set of rows
    testInserts,      \* rows written by the key test of the admin panel
    thrownError,      \* isRetryableError: the error of a failed attempt,
                      \* [code, status, message]
    clPc,             \* failed attempt: "start", "logged", then "returned"
    retryable,        \* isRetryableError: the value returned
    loggedStatus,     \* failed attempt: response_status_code of its log record
    requestCount,     \* table gemini_keys: request_count of each key
    performed,        \* increments of request_count performed so far, for each key
    usageRpcs,        \* number of updateKeyUsage calls made
    ktPc,             \* key test: position of the test of one key
    ktKey,            \* key test: the key under test (None before)
    ktSuccess,        \* key test: success
    ktCurrent,        \* key test: currentKey.request_count as selected
    max_tokens,       \* generation parameters: max_tokens of the request (Undefined when absent)
    temperature,      \* generation parameters: temperature of the request, in tenths
    generationConfig, \* generation parameters: geminiRequest.generationConfig
    gcPc,             \* generation parameters: "start", then "built"
    systemSettings,   \* table system_settings: [streaming_config, disguise_enabled]
    putsDone,         \* admin/settings: number of PUT requests answered
    stPc,             \* admin/settings: position of the PUT handler
    stBody,           \* admin/settings: req.body, [enabled, fake_stream_enabled, disguise_enabled]
    stBefore,         \* admin/settings: the table when the PUT arrived
    streamingSuccess, \* admin/settings: streamingSuccess
    stStatus          \* admin/settings: status of the response (None before)

dispatchVars == <<handler, request, streamingConfig, geminiKeys, kvCache, pc,
                  accessKeyId, availableKeys, shuffledKeys, idx, triedKeys,
                  lastError, inflight, upstreamCalls, upstreamResults,
                  usageCalls, callLogs, invalidated, res, headerWrites,
                  lateAttempts, storageFaults, effectFailed>>

chunkVars == <<fullText, fsVariant, fsPc, currentIndex, emitted, frames,
               streamClosed, cancelled, fsTick>>

realVars == <<rsVariant, rsPc, upstream, rsIndex, rsFrames, hasContent,
              accumulatedText, rsClosed, rsCancelled, rsEnd>>

poolVars == <<ldPc, ldKeys, ldResult, ldSeen, ldDbFailed, ldAfterMark, mkPc,
              mkKey, adminOps, cacheExpired>>

\* the state of the handler without the table and the cache it reads
handlerVars == <<handler, request, streamingConfig, pc, accessKeyId,
                 availableKeys, shuffledKeys, idx, triedKeys, lastError, inflight,
                 upstreamCalls, upstreamResults, usageCalls, callLogs,
                 invalidated, res, headerWrites, lateAttempts, storageFaults,
                 effectFailed>>

convVars == <<cvHandler, cvMessages, cvDisguise, cvContents, cvPc, cvEarlier>>

modelsVars == <<mdMethod, mdListing, mdPc, mdApiKey, mdRes>>

logVars == <<callLogRows, logClock, logPc, oldLogs, testInserts>>

classifyVars == <<thrownError, clPc, retryable, loggedStatus>>

usageVars == <<requestCount, performed, usageRpcs, ktPc, ktKey, ktSuccess, ktCurrent>>

paramVars == <<max_tokens, temperature, generationConfig, gcPc>>

settingsVars == <<systemSettings, putsDone, stPc, stBody, stBefore, streamingSuccess, stStatus>>

vars == <<dispatchVars, chunkVars, realVars, poolVars, convVars, modelsVars, logVars,
          classifyVars,
          usageVars,
          paramVars,
          settingsVars>>

\* what the steps of the handler leave alone
nonDispatchVars == <<chunkVars, realVars, poolVars, convVars, modelsVars, logVars,
    classifyVars,
    usageVars,
    paramVars,
    settingsVars>>

\* what the steps of a fake stream leave alone
nonChunkVars == <<dispatchVars, realVars, poolVars, convVars, modelsVars, logVars,
    classifyVars,
    usageVars,
    paramVars,
    settingsVars>>

\* what the steps of a real stream leave alone
nonRealVars == <<dispatchVars, chunkVars, poolVars, convVars, modelsVars, logVars,
    classifyVars,
    usageVars,
    paramVars,
    settingsVars>>

\* what the steps of the key manager and of the admin endpoint leave alone
nonPoolVars == <<handlerVars, chunkVars, realVars, convVars, modelsVars, logVars,
    classifyVars,
    usageVars,
    paramVars,
    settingsVars>>

\* what the building of the upstream request leaves alone
nonConvVars == <<dispatchVars, chunkVars, realVars, poolVars, modelsVars, logVars,
    classifyVars,
    usageVars,
    paramVars,
    settingsVars>>

\* what the models endpoint leaves alone
nonModelsVars == <<dispatchVars, chunkVars, realVars, poolVars, convVars, logVars,
    classifyVars,
    usageVars,
    paramVars,
    settingsVars>>

\* what the writing of log rows leaves alone
nonLogVars == <<dispatchVars, chunkVars, realVars, poolVars, convVars, modelsVars,
    classifyVars,
    usageVars,
    paramVars,
    settingsVars>>

\* what the classification of an error leaves alone
nonClassifyVars == <<dispatchVars, chunkVars, realVars, poolVars, convVars, modelsVars,
    logVars,
    usageVars,
    paramVars,
    settingsVars>>

\* what the writing of the usage counters leaves alone
nonUsageVars == <<dispatchVars, chunkVars, realVars, poolVars, convVars, modelsVars, logVars, classifyVars,
    paramVars,
    settingsVars>>

\* what the mapping of the generation parameters leaves alone
nonParamVars == <<dispatchVars, chunkVars, realVars, poolVars, convVars, modelsVars, logVars, classifyVars, usageVars,
    settingsVars>>

\* what the settings endpoint leaves alone
nonSettingsVars == <<dispatchVars, chunkVars, realVars, poolVars, convVars, modelsVars, logVars, classifyVars, usageVars, paramVars>>

-----------------------------------------------------------------------------
(* Bounds of the model *)

\* number of rows of table gemini_keys
NumKeys == 3

\* longest tail appended to the padding of a fake-stream text
MaxTail == 2

\* most chunks result.stream yields in the model of a real stream
MaxChunks == 2

\* most messages of a request in the model of request building
MaxMessages == 3

\* number of concurrent calls of getAllAvailableGeminiKeys
NumLoaders == 2

\* number of concurrent calls of logApiCall
NumLogCalls == 3

\* most rows the key test of the admin panel writes
MaxTestInserts == 2

\* process.env.MAX_LOG_COUNT of the deployment
MaxLogCount == 2

\* most PUT / DELETE requests served by admin/gemini-keys
MaxAdminOps == 1

\* most calls of updateKeyUsage in the model of the usage counters
MaxUsageRpcs == 2

\* number of keys tested concurrently by the admin panel's key test
NumKeyTests == 2

\* highest temperature of a request in the model, in tenths
MaxTemperature == 20

\* most PUT requests served by admin/settings
MaxPuts == 2

KeyIds == 1..NumKeys

Handlers == {"node", "edge", "edge2"}

None == 0

\* a field the request body does not have
Undefined == -1

\* the rows inserted with the schema: streaming_config as an object,
\* disguise_enabled as the text of a boolean
DefaultSettings ==
    [streaming_config |-> [enabled |-> TRUE, fake_stream_enabled |-> FALSE],
     disguise_enabled |-> "true"]

\* a field of the body of a settings update: a boolean, or a value that is
\* none ("other": absent, a string, a number)
Flags == {"true", "false", "other"}

\* no settings update has arrived
NoBody == [enabled |-> "other", fake_stream_enabled |-> "other",
           disguise_enabled |-> "other"]

-----------------------------------------------------------------------------
(* Strings *)

\* String.prototype.includes
Includes(s, p) ==
    \E i \in 1..(Len(s) - Len(p) + 1) : SubSeq(s, i, i + Len(p) - 1) = p

Min(a, b) == IF a < b THEN a ELSE b

Max(a, b) == IF a > b THEN a ELSE b

\* the elements of a sequence
Range(s) == {s[i] : i \in DOMAIN s}

\* all orderings of a list: what [...list].sort(() => Math.random() - 0.5) can return
Shuffles(list) ==
    {p \in [1..Len(list) -> Range(list)] :
        \A i, j \in 1..Len(list) : i # j => p[i] # p[j]}

-----------------------------------------------------------------------------
(* Errors *)

\* lib/config ERROR_MESSAGES[statusCode].type, 'unknown_error' when absent
ErrorType(statusCode) ==
    CASE statusCode = 401 -> "invalid_api_key"
      [] statusCode = 429 -> "rate_limit_exceeded"
      [] statusCode = 500 -> "internal_error"
      [] statusCode = 503 -> "no_available_keys"
      [] statusCode = 400 -> "invalid_request_body"
      [] statusCode = 403 -> "gemini_api_key_invalid"
      [] OTHER -> "unknown_error"

\* lib/config ERROR_MESSAGES[statusCode].message (the texts are abbreviated)
DefaultMessage(statusCode) ==
    CASE statusCode = 401 -> "ERROR_MESSAGES.401"
      [] statusCode = 429 -> "ERROR_MESSAGES.429"
      [] statusCode = 500 -> "ERROR_MESSAGES.500"
      [] statusCode = 503 -> "ERROR_MESSAGES.503"
      [] statusCode = 400 -> "ERROR_MESSAGES.400"
      [] statusCode = 403 -> "ERROR_MESSAGES.403"
      [] OTHER -> "Unknown error"

\* new ApiError(statusCode, message); message "" stands for an absent argument
ApiError(statusCode, message) ==
    [statusCode |-> statusCode,
     message    |-> IF message = "" THEN DefaultMessage(statusCode) ELSE message,
     type       |-> ErrorType(statusCode)]

\* ApiError.toJSON
ToJSON(apiError) ==
    [message |-> apiError.message,
     type    |-> apiError.type,
     code    |-> ToString(apiError.statusCode)]

\* lastError = null
NoError == [code |-> None, message |-> ""]

\* Failures of the upstream provider: code is error.code || error.status
\* (None when the error carries neither), message is error.message.
QuotaError == [code |-> 429, message |-> "quota exceeded"]

KeyInvalidError == [code |-> 400, message |-> "API_KEY_INVALID"]

KeyNotValidError ==
    [code |-> 400, message |-> "API key not valid. Please pass a valid API key."]

UnauthorizedError ==
    [code |-> 401, message |-> "Request had invalid authentication credentials."]

EmptyResponseError == [code |-> None, message |-> "Empty response from Gemini API"]

UpstreamErrors ==
    {QuotaError, KeyInvalidError, KeyNotValidError, UnauthorizedError,
     EmptyResponseError}

\* res.writeHead on a response whose headers were sent (ERR_HTTP_HEADERS_SENT;
\* its code is a string, so it equals neither 401 nor 403)
HeadersSentError ==
    [code |-> None,
     message |-> "Cannot write headers after they are sent to the client"]


-----------------------------------------------------------------------------
(* Classification of failures *)

\* a classification that also stops on a rate limit (faulty variant)
IsRetryableError_StopsOnRateLimit(error) ==
    IF error = NoError THEN FALSE
    ELSE IF error.code \in {401, 429} THEN FALSE
    ELSE IF /\ error.code = 403
            /\ ~Includes(error.message, "API key")
            /\ ~Includes(error.message, "API_KEY") THEN FALSE
    ELSE TRUE

\* isRetryableError; the three copies are identical
IsRetryableError(error) ==
    IF error = NoError THEN FALSE
    ELSE IF error.code = 401 THEN FALSE
    ELSE IF /\ error.code = 403
            /\ ~Includes(error.message, "API key")
            /\ ~Includes(error.message, "API_KEY") THEN FALSE
    ELSE TRUE

\* response_status_code of a failed attempt's log record
LogStatusCode(errorMsg) ==
    IF Includes(errorMsg, "quota") THEN 429
    ELSE IF Includes(errorMsg, "API_KEY_INVALID") THEN 401
    ELSE IF Includes(errorMsg, "Not Found") THEN 404
    ELSE 500

\* the test guarding markKeyAsInvalid
IsInvalidKeyMessage(errorMsg) ==
    \/ Includes(errorMsg, "API_KEY_INVALID")
    \/ Includes(errorMsg, "Invalid API key")
    \/ Includes(errorMsg, "API key not valid")

\* whether the handler's exhaustion branch has the 'Empty response' case
HasEmptyResponseBranch(h) == h = "edge"

\* the error synthesized once the loop is left without a success
ExhaustionError(h, error, nTried) ==
    IF Includes(error.message, "quota") \/ Includes(error.message, "QUOTA_EXCEEDED")
    THEN ApiError(429, "All API keys have exceeded quota limits")
    ELSE IF \/ Includes(error.message, "API_KEY_INVALID")
            \/ Includes(error.message, "Invalid API key")
    THEN ApiError(401, "All API keys are invalid")
    ELSE IF HasEmptyResponseBranch(h) /\ Includes(error.message, "Empty response")
    THEN ApiError(502, "All API keys returned empty responses")
    ELSE ApiError(503, "All " \o ToString(nTried)
                         \o " API keys failed. Last error: " \o error.message)

-----------------------------------------------------------------------------
(* Strategy selection *)

\* completions-edge.ts 463-486: the first copy
EdgeStrategy(isStream, cfg) ==
    IF isStream THEN
        IF cfg.enabled /\ ~cfg.fake_stream_enabled THEN "real"
        ELSE IF ~cfg.enabled /\ cfg.fake_stream_enabled THEN "fake"
        ELSE IF ~cfg.enabled /\ ~cfg.fake_stream_enabled THEN "buffered"
        ELSE "real"
    ELSE "buffered"

\* completions-edge.ts 948-972: the second copy
Edge2Strategy(isStream, cfg) ==
    IF isStream /\ cfg.enabled THEN
        IF cfg.enabled /\ ~cfg.fake_stream_enabled THEN "real"
        ELSE "fake"
    ELSE IF isStream /\ cfg.fake_stream_enabled THEN "fake"
    ELSE "buffered"

\* completions.ts 75-126: callGeminiWithKey looks at isStream only
NodeStrategy(isStream, cfg) ==
    IF isStream THEN "real" ELSE "buffered"

SelectStrategy(h, isStream, cfg) ==
    CASE h = "edge"  -> EdgeStrategy(isStream, cfg)
      [] h = "edge2" -> Edge2Strategy(isStream, cfg)
      [] OTHER       -> NodeStrategy(isStream, cfg)

-----------------------------------------------------------------------------
(* The upstream provider *)

\* What one upstream call can do: return text, return empty (or blank) text,
\* fail, or (a streaming call) fail while its stream is iterated.
Outcomes(strategy) ==
    {[kind |-> "text", error |-> NoError], [kind |-> "empty", error |-> NoError]}
    \cup {[kind |-> "error", error |-> e] : e \in UpstreamErrors}
    \cup (IF strategy = "real"
          THEN {[kind |-> "midstream", error |-> e] : e \in UpstreamErrors}
          ELSE {})

\* handleNonStream / handleFakeStream of the first copy throw on empty text
ThrowsOnEmptyText(h, strategy) ==
    h = "edge" /\ strategy \in {"fake", "buffered"}

\* an attempt that fails when its stream breaks after the response was
\* returned (faulty variant)
AttemptError_MidstreamFails(h, strategy, outcome, sent) ==
    IF outcome.kind \in {"error", "midstream"} THEN outcome.error
    ELSE IF h = "node" /\ strategy = "real" /\ sent THEN HeadersSentError
    ELSE IF outcome.kind = "empty" /\ ThrowsOnEmptyText(h, strategy)
        THEN EmptyResponseError
    ELSE NoError

\* The error an attempt ends with, NoError when it succeeds.
\* sent: whether the response headers had been sent before this attempt.
AttemptError(h, strategy, outcome, sent) ==
    IF outcome.kind = "error" THEN outcome.error
    ELSE IF h = "node" /\ strategy = "real" THEN
        \* res.writeHead(200, ...), then the for-await over result.stream
        IF sent THEN HeadersSentError
        ELSE IF outcome.kind = "midstream" THEN outcome.error
        ELSE NoError
    ELSE IF outcome.kind = "empty" /\ ThrowsOnEmptyText(h, strategy)
        THEN EmptyResponseError
    ELSE NoError


-----------------------------------------------------------------------------
(* The credential pool: lib/key-manager *)

\* fetchKeysFromDb: the rows with is_active and is_valid, here in id order
FetchKeysFromDb(table) ==
    LET eligible == {k \in KeyIds : table[k].is_active /\ table[k].is_valid}
        RECURSIVE Sorted(_, _)
        Sorted(k, acc) ==
            IF k > NumKeys THEN acc
            ELSE Sorted(k + 1, IF k \in eligible THEN Append(acc, k) ELSE acc)
    IN Sorted(1, <<>>)

\* a reload that filters the rows on is_active only (faulty variant)
GetAllAvailableGeminiKeys_ActiveOnly(table, cache) ==
    LET RECURSIVE Sorted(_, _)
        Sorted(k, acc) ==
            IF k > NumKeys THEN acc
            ELSE Sorted(k + 1, IF table[k].is_active THEN Append(acc, k) ELSE acc)
    IN IF Len(cache) > 0 THEN cache ELSE Sorted(1, <<>>)

\* getAllAvailableGeminiKeys, production branch: the cached list when it is
\* non-empty, else the rows of the table; <<>> stands for throw ApiError(503)
GetAllAvailableGeminiKeys(table, cache) ==
    IF Len(cache) > 0 THEN cache ELSE FetchKeysFromDb(table)

\* the cache after getAllAvailableGeminiKeys: kv.setex on a non-empty reload
CacheAfterGet(table, cache) ==
    IF Len(cache) > 0 THEN cache ELSE FetchKeysFromDb(table)

\* String.prototype.startsWith
StartsWith(str, prefix) ==
    Len(str) >= Len(prefix) /\ SubSeq(str, 1, Len(prefix)) = prefix

\* the Authorization header of each kind of request; "" when it is absent
AuthHeader(auth) ==
    CASE auth = "missing"   -> ""
      [] auth = "notBearer" -> "Basic sk-live"
      [] auth = "noPrefix"  -> "Bearer live"
      [] auth = "unknown"   -> "Bearer sk-other"
      [] auth = "inactive"  -> "Bearer sk-revoked"
      [] OTHER              -> "Bearer sk-live"

\* table access_keys
AccessKeys ==
    {[id |-> 1, lpb_key |-> "sk-live", is_active |-> TRUE],
     [id |-> 2, lpb_key |-> "sk-revoked", is_active |-> FALSE],
     [id |-> 3, lpb_key |-> "live", is_active |-> TRUE]}

\* authHeader.substring(7)
BearerToken(header) == SubSeq(header, 8, Len(header))

\* the id of the active access key with this secret, None when there is none
LookupAccessKey(apiKey) ==
    LET rows == {r \in AccessKeys : r.lpb_key = apiKey /\ r.is_active} IN
    IF rows = {} THEN None ELSE (CHOOSE r \in rows : TRUE).id

\* validateAccessKey without the test of the 'sk-' prefix (faulty variant)
ValidateAccessKey_AnySecret(auth) == LookupAccessKey(BearerToken(AuthHeader(auth)))

\* validateAccessKey(apiKey) on the part of the header after 'Bearer ':
\* an id when the secret starts with 'sk-' and matches an active access key
ValidateAccessKey(auth) ==
    LET apiKey == BearerToken(AuthHeader(auth)) IN
    IF apiKey = "" \/ ~StartsWith(apiKey, "sk-") THEN None
    ELSE LookupAccessKey(apiKey)

\* the header is absent or does not start with 'Bearer '
HeaderRejected(auth) ==
    AuthHeader(auth) = "" \/ ~StartsWith(AuthHeader(auth), "Bearer ")

AuthKinds == {"missing", "notBearer", "noPrefix", "unknown", "inactive", "valid"}

\* Tables of the model: the first n keys are active and valid, the next one
\* is inactive and the remaining ones are marked invalid.
KeyTable(n) ==
    [k \in KeyIds |-> [is_active |-> k # n + 1, is_valid |-> k <= n + 1]]

KeyTables == {KeyTable(n) : n \in 0..NumKeys}

-----------------------------------------------------------------------------
(* The response *)

\* the error field of a response that carries no error document
NoBodyError == ToJSON(ApiError(None, "none"))

NoResponse ==
    [headersSent |-> FALSE, status |-> None, contentType |-> "none",
     body |-> "none", ended |-> FALSE, error |-> NoBodyError]

\* one JSON document with a status: res.status(s).json(b) / new Response(JSON...)
JsonResponse(status, body, error) ==
    [headersSent |-> TRUE, status |-> status, contentType |-> "json",
     body |-> body, ended |-> TRUE, error |-> error]

ErrorResponse(apiError) ==
    JsonResponse(apiError.statusCode, "error", ToJSON(apiError))

\* an event stream with status 200; body "partial" while frames are still
\* due, "stream" once the handler ended it or handed it over to the runtime
SseResponse(body, ended) ==
    [headersSent |-> TRUE, status |-> 200, contentType |-> "sse",
     body |-> body, ended |-> ended, error |-> NoBodyError]

\* The response of a successful attempt
SuccessResponse(h, strategy) ==
    IF strategy = "buffered" THEN JsonResponse(200, "completion", NoBodyError)
    ELSE SseResponse("stream", TRUE)


-----------------------------------------------------------------------------
(* The failover loop: what follows an attempt *)

NoCall == [key |-> None, strategy |-> "none"]

\* a loop that moves on to the next key after a success (faulty variant)
AfterSuccess_Continues(i, n) == IF i < n THEN "loop" ELSE "done"

\* after a successful attempt the handler returns
AfterSuccess(i, n) == "done"

\* a loop that breaks on every failure (faulty variant)
AfterFailure_Breaks(error, i, n) == "exhausted"

\* after a failed attempt: continue with the next key when the error is
\* retryable (the for-of loop ends after the last key), break otherwise
AfterFailure(error, i, n) ==
    IF IsRetryableError(error)
    THEN (IF i < n THEN "loop" ELSE "exhausted")
    ELSE "exhausted"

\* markKeyAsInvalid invoked for every retryable failure (faulty variant)
MarksInvalid_AnyRetryable(error) == IsRetryableError(error)

\* markKeyAsInvalid is invoked for a retryable failure with an invalid-key message
MarksInvalid(error) ==
    IsRetryableError(error) /\ IsInvalidKeyMessage(error.message)

\* the list the loop iterates: the first copy of the edge handler shuffles
CandidateOrders(h, keys) ==
    IF h = "edge" THEN Shuffles(keys) ELSE {keys}

\* the record handed to logApiCall
LogRecord(key, status, isStream, errorMsg) ==
    [gemini_key_id |-> key, response_status_code |-> status,
     is_stream |-> isStream, error_message |-> errorMsg]

-----------------------------------------------------------------------------
(* One chat-completion request *)

ChunkIdle ==
    /\ fullText = <<>>
    /\ fsVariant = "none"
    /\ fsPc = "idle"
    /\ currentIndex = 0
    /\ emitted = <<>>
    /\ frames = <<>>
    /\ streamClosed = FALSE
    /\ cancelled = FALSE
    /\ fsTick = FALSE

\* no upstream request is being built
ConvIdle ==
    /\ cvHandler = "none"
    /\ cvMessages = <<>>
    /\ cvDisguise = FALSE
    /\ cvContents = <<>>
    /\ cvPc = "idle"
    /\ cvEarlier = <<>>

\* no usage counter is being written
UsageIdle ==
    /\ requestCount = [k \in KeyIds |-> 0]
    /\ performed = [k \in KeyIds |-> 0]
    /\ usageRpcs = 0
    /\ ktPc = [t \in 1..NumKeyTests |-> "idle"]
    /\ ktKey = [t \in 1..NumKeyTests |-> None]
    /\ ktSuccess = [t \in 1..NumKeyTests |-> FALSE]
    /\ ktCurrent = [t \in 1..NumKeyTests |-> 0]

\* no generation parameter is being mapped
ParamIdle ==
    /\ max_tokens = Undefined
    /\ temperature = Undefined
    /\ generationConfig = [maxOutputTokens |-> Undefined, temperature |-> Undefined]
    /\ gcPc = "idle"

\* no settings request is served
SettingsIdle ==
    /\ systemSettings = DefaultSettings
    /\ putsDone = 0
    /\ stPc = "idle"
    /\ stBody = NoBody
    /\ stBefore = DefaultSettings
    /\ streamingSuccess = FALSE
    /\ stStatus = None

\* no error is being classified
ClassifyIdle ==
    /\ thrownError = [code |-> None, status |-> None, message |-> ""]
    /\ clPc = "idle"
    /\ retryable = FALSE
    /\ loggedStatus = None

\* no log row is being written
LogIdle ==
    /\ callLogRows = {}
    /\ logClock = 0
    /\ logPc = [l \in 1..NumLogCalls |-> "idle"]
    /\ oldLogs = [l \in 1..NumLogCalls |-> {}]
    /\ testInserts = 0

\* no request for the model list is served
ModelsIdle ==
    /\ mdMethod = "none"
    /\ mdListing = [kind |-> "none"]
    /\ mdPc = "idle"
    /\ mdApiKey = None
    /\ mdRes = [status |-> None, data |-> <<>>]

\* no call of the key manager is under way
PoolIdle ==
    /\ ldPc = [l \in 1..NumLoaders |-> "idle"]
    /\ ldKeys = [l \in 1..NumLoaders |-> <<>>]
    /\ ldResult = [l \in 1..NumLoaders |-> [kind |-> "none"]]
    /\ ldSeen = [l \in 1..NumLoaders |-> {}]
    /\ ldDbFailed = [l \in 1..NumLoaders |-> FALSE]
    /\ ldAfterMark = [l \in 1..NumLoaders |-> FALSE]
    /\ mkPc = "idle"
    /\ mkKey = None
    /\ adminOps = 0
    /\ cacheExpired = FALSE

\* no real stream is written
RealIdle ==
    /\ rsVariant = "none"
    /\ rsPc = "idle"
    /\ upstream = [chunks |-> <<>>, ending |-> "complete"]
    /\ rsIndex = 0
    /\ rsFrames = <<>>
    /\ hasContent = FALSE
    /\ accumulatedText = ""
    /\ rsClosed = FALSE
    /\ rsCancelled = FALSE
    /\ rsEnd = "none"

\* a request arrives
Arrival ==
    /\ SettingsIdle
    /\ ParamIdle
    /\ UsageIdle
    /\ handler \in Handlers
    /\ request \in [auth : AuthKinds, bodyOk : BOOLEAN, stream : BOOLEAN]
    \* the node handler reads req.body: a body that is no request object has
    \* no stream field
    /\ (handler = "node" /\ ~request.bodyOk) => ~request.stream
    /\ streamingConfig \in [enabled : BOOLEAN, fake_stream_enabled : BOOLEAN]
    /\ geminiKeys \in KeyTables
    /\ kvCache \in {<<>>, FetchKeysFromDb(geminiKeys)}
    /\ pc = "auth"
    /\ accessKeyId = None
    /\ availableKeys = <<>>
    /\ shuffledKeys = <<>>
    /\ idx = 1
    /\ triedKeys = <<>>
    /\ lastError = NoError
    /\ inflight = NoCall
    /\ upstreamCalls = <<>>
    /\ upstreamResults = <<>>
    /\ usageCalls = [k \in KeyIds |-> 0]
    /\ callLogs = <<>>
    /\ invalidated = {}
    /\ res = NoResponse
    /\ headerWrites = 0
    /\ lateAttempts = 0
    /\ effectFailed = FALSE
    /\ ChunkIdle
    /\ RealIdle
    /\ PoolIdle
    /\ ConvIdle
    /\ ModelsIdle
    /\ LogIdle
    /\ ClassifyIdle

\* the storage serves every call of the side effects
Init ==
    /\ Arrival
    /\ storageFaults = FALSE

loopVars == <<availableKeys, shuffledKeys, idx, triedKeys, lastError, inflight,
              upstreamCalls, upstreamResults, usageCalls, callLogs, invalidated,
              lateAttempts, storageFaults, effectFailed>>

\* side effects that are awaited without a catch (faulty variant)
ReachesHandler_Awaited(effect, failed) == failed

\* Whether a failure of a side effect reaches the handler's control flow.
\* updateKeyUsage, logApiCall and markKeyAsInvalid catch every error, and
\* the handlers call them without await (with .catch(console.error)).
ReachesHandler(effect, failed) == FALSE

\* a terminal ApiError thrown to the handler's outer catch
Fail(statusCode) ==
    /\ res' = ErrorResponse(ApiError(statusCode, ""))
    /\ headerWrites' = headerWrites + 1
    /\ pc' = "done"

\* step 1: the Authorization header and validateAccessKey
Authenticate ==
    /\ pc = "auth"
    /\ IF HeaderRejected(request.auth) \/ ValidateAccessKey(request.auth) = None
       THEN Fail(401) /\ UNCHANGED accessKeyId
       ELSE /\ accessKeyId' = ValidateAccessKey(request.auth)
            /\ pc' = "parse"
            /\ UNCHANGED <<res, headerWrites>>
    /\ UNCHANGED <<handler, request, streamingConfig, geminiKeys, kvCache>>
    /\ UNCHANGED loopVars
    /\ UNCHANGED nonDispatchVars

\* step 2: request.json() of the edge handlers; req.body of the node handler
ParseBody ==
    /\ pc = "parse"
    /\ IF handler # "node" /\ ~request.bodyOk
       THEN Fail(400)
       ELSE /\ pc' = IF handler = "node" THEN "route" ELSE "config"
            /\ UNCHANGED <<res, headerWrites>>
    /\ UNCHANGED <<handler, request, streamingConfig, geminiKeys, kvCache, accessKeyId>>
    /\ UNCHANGED loopVars
    /\ UNCHANGED nonDispatchVars

\* node handler, step 3.5: a streaming request is forwarded to the edge
\* function when streaming_config.enabled; the edge function then serves it
Delegate ==
    /\ pc = "route"
    /\ request.stream /\ streamingConfig.enabled
    /\ handler' = "edge"
    /\ pc' = "auth"
    /\ UNCHANGED <<request, streamingConfig, geminiKeys, kvCache, accessKeyId,
                   res, headerWrites>>
    /\ UNCHANGED loopVars
    /\ UNCHANGED nonDispatchVars

\* node handler, step 3.5: no forwarding, or the fetch of the edge function
\* failed and the handler falls back to its own loop
NoDelegate ==
    /\ pc = "route"
    /\ pc' = "keys"
    /\ UNCHANGED <<handler, request, streamingConfig, geminiKeys, kvCache,
                   accessKeyId, res, headerWrites>>
    /\ UNCHANGED loopVars
    /\ UNCHANGED nonDispatchVars

\* edge handlers, step 3: getStreamingConfig
LoadConfig ==
    /\ pc = "config"
    /\ pc' = "keys"
    /\ UNCHANGED <<handler, request, streamingConfig, geminiKeys, kvCache,
                   accessKeyId, res, headerWrites>>
    /\ UNCHANGED loopVars
    /\ UNCHANGED nonDispatchVars

\* convertOpenAItoGemini(requestBody) throws a TypeError (messages is
\* undefined) when the node handler was given a body that is no request
\* object: its try { requestBody = req.body } never throws
ConvertThrows(h, bodyOk) == h = "node" /\ ~bodyOk

\* a key manager that hands an empty list to its caller (faulty variant)
NoKeysAvailable_Returned(keys) == FALSE

\* if (keys.length === 0) throw new ApiError(503)
NoKeysAvailable(keys) == Len(keys) = 0

\* step 4: getAllAvailableGeminiKeys and the order of the candidates; the
\* request is converted before the loop starts. A for-of loop over no
\* candidate falls through to the code after the loop.
LoadKeys ==
    /\ pc = "keys"
    /\ LET keys == GetAllAvailableGeminiKeys(geminiKeys, kvCache) IN
       IF NoKeysAvailable(keys)
       THEN /\ Fail(503)
            /\ UNCHANGED <<availableKeys, shuffledKeys, kvCache>>
       ELSE IF ConvertThrows(handler, request.bodyOk)
       THEN /\ availableKeys' = keys
            /\ kvCache' = CacheAfterGet(geminiKeys, kvCache)
            /\ Fail(500)
            /\ UNCHANGED shuffledKeys
       ELSE /\ availableKeys' = keys
            /\ kvCache' = CacheAfterGet(geminiKeys, kvCache)
            /\ shuffledKeys' \in CandidateOrders(handler, keys)
            /\ pc' = IF Len(keys) = 0 THEN "exhausted" ELSE "loop"
            /\ UNCHANGED <<res, headerWrites>>
    /\ UNCHANGED <<handler, request, streamingConfig, geminiKeys, accessKeyId,
                   idx, triedKeys, lastError, inflight, upstreamCalls,
                   upstreamResults, usageCalls, callLogs, invalidated,
                   lateAttempts, storageFaults, effectFailed>>
    /\ UNCHANGED nonDispatchVars

\* a handler that logs its failed attempts only (faulty variant)
LogsAfterAttempt_FailuresOnly(logs, key, error, isStream) ==
    IF error = NoError THEN logs
    ELSE Append(logs, LogRecord(key, LogStatusCode(error.message), isStream,
                                error.message))

\* logApiCall of the success branch and of the failure branch of a pass
LogsAfterAttempt(logs, key, error, isStream) ==
    Append(logs,
           IF error = NoError THEN LogRecord(key, 200, isStream, "")
           ELSE LogRecord(key, LogStatusCode(error.message), isStream, error.message))

\* usage that is recorded for successful attempts only, after the call
\* (faulty variant)
UsageAtAttemptStart_Deferred(usage, key) == usage

\* updateKeyUsage(key.id), called at the start of every pass of the loop body
UsageAtAttemptStart(usage, key) == [usage EXCEPT ![key] = @ + 1]

\* a loop that goes on to the next candidate without awaiting the call it
\* issued (faulty variant)
LoopBodyMayStart_NoAwait(pending) == TRUE

\* result = await handle...(...) / await callGeminiWithKey(...): a pass of the
\* loop body starts only when the call of the pass before has settled
LoopBodyMayStart(pending) == pending = NoCall

\* loop body up to the await: triedKeys.push, updateKeyUsage (not awaited) and
\* the upstream call of the selected strategy
BeginAttempt ==
    /\ pc = "loop"
    /\ LoopBodyMayStart(inflight)
    /\ idx <= Len(shuffledKeys)
    /\ \E usageFails \in {FALSE, storageFaults} :
         LET key == shuffledKeys[idx]
             call == [key |-> key,
                      strategy |-> SelectStrategy(handler, request.stream, streamingConfig)]
         IN /\ triedKeys' = Append(triedKeys, key)
            /\ usageCalls' = UsageAtAttemptStart(usageCalls, key)
            /\ effectFailed' = (effectFailed \/ usageFails)
            /\ IF ReachesHandler("usage", usageFails)
               THEN /\ Fail(500)
                    /\ UNCHANGED <<inflight, upstreamCalls, lateAttempts>>
               ELSE /\ inflight' = call
                    /\ upstreamCalls' = Append(upstreamCalls, call)
                    /\ lateAttempts' = lateAttempts + (IF res.headersSent THEN 1 ELSE 0)
                    /\ UNCHANGED <<pc, res, headerWrites>>
    /\ UNCHANGED <<handler, request, streamingConfig, geminiKeys, kvCache,
                   accessKeyId, availableKeys, shuffledKeys, idx, lastError,
                   upstreamResults, callLogs, invalidated, storageFaults>>
    /\ UNCHANGED nonDispatchVars

\* the response object after an attempt of the node handler's streaming branch:
\* writeHead is reached unless generateContentStream rejected
NodeStreamResponse(outcome, r) ==
    IF outcome.kind = "error" \/ r.headersSent THEN r
    ELSE IF outcome.kind = "midstream" THEN SseResponse("partial", FALSE)
    ELSE SseResponse("stream", TRUE)

\* an invalidation that also retires the credential (faulty variant)
InvalidatedRow_Retired(row) == [is_active |-> FALSE, is_valid |-> FALSE]

\* the row after the update of markKeyAsInvalid: is_valid false (and a new
\* last_used_at), every other column as it was
InvalidatedRow(row) == [row EXCEPT !.is_valid = FALSE]

\* loop body after the await: the success branch or the failure branch
CompleteAttempt ==
    /\ pc = "loop"
    /\ inflight # NoCall
    /\ \E outcome \in Outcomes(inflight.strategy),
          logFails \in {FALSE, storageFaults}, markFails \in {FALSE, storageFaults} :
         LET key == inflight.key
             nodeStream == handler = "node" /\ inflight.strategy = "real"
             error == AttemptError(handler, inflight.strategy, outcome, res.headersSent)
             n == Len(shuffledKeys)
             marks == error # NoError /\ MarksInvalid(error)
             thrown == \/ ReachesHandler("log", logFails)
                       \/ marks /\ ReachesHandler("invalidate", markFails)
         IN /\ upstreamResults' = Append(upstreamResults,
                    [key |-> key, error |-> error, kind |-> outcome.kind])
            /\ effectFailed' = (effectFailed \/ logFails \/ (marks /\ markFails))
            /\ callLogs' = LogsAfterAttempt(callLogs, key, error, request.stream)
            /\ IF thrown
               THEN /\ Fail(500)
                    /\ UNCHANGED <<lastError, invalidated, geminiKeys, kvCache>>
               ELSE IF error = NoError
               THEN /\ res' = IF nodeStream THEN NodeStreamResponse(outcome, res)
                              ELSE SuccessResponse(handler, inflight.strategy)
                    /\ headerWrites' = headerWrites + 1
                    /\ pc' = AfterSuccess(idx, n)
                    /\ UNCHANGED <<lastError, invalidated, geminiKeys, kvCache>>
               ELSE /\ lastError' = error
                    /\ res' = IF nodeStream THEN NodeStreamResponse(outcome, res) ELSE res
                    /\ headerWrites' = headerWrites
                           + (IF nodeStream /\ outcome.kind # "error" THEN 1 ELSE 0)
                    /\ IF marks
                       THEN /\ invalidated' = invalidated \cup {key}
                            /\ IF markFails
                               \* the update of the row failed; kv.del runs unless
                               \* the storage call threw
                               THEN /\ UNCHANGED geminiKeys
                                    /\ kvCache' \in {kvCache, <<>>}
                               ELSE /\ geminiKeys' =
                                          [geminiKeys EXCEPT ![key] = InvalidatedRow(@)]
                                    /\ kvCache' = <<>>
                       ELSE UNCHANGED <<invalidated, geminiKeys, kvCache>>
                    /\ pc' = AfterFailure(error, idx, n)
    /\ idx' = idx + 1
    /\ inflight' = NoCall
    /\ UNCHANGED <<handler, request, streamingConfig, accessKeyId, availableKeys,
                   shuffledKeys, triedKeys, upstreamCalls, usageCalls, lateAttempts,
                   storageFaults>>
    /\ UNCHANGED nonDispatchVars

\* after the loop: the error synthesized from lastError. In the node handler
\* res.status().json() throws once the headers were sent, in the try block and
\* again in the catch block, and the handler's promise rejects.
Exhaust ==
    /\ pc = "exhausted"
    /\ IF handler = "node" /\ res.headersSent
       THEN /\ pc' = "crashed"
            /\ headerWrites' = headerWrites + 2
            /\ UNCHANGED res
       ELSE /\ res' = ErrorResponse(ExhaustionError(handler, lastError, Len(triedKeys)))
            /\ headerWrites' = headerWrites + 1
            /\ pc' = "done"
    /\ UNCHANGED <<handler, request, streamingConfig, geminiKeys, kvCache, accessKeyId>>
    /\ UNCHANGED loopVars
    /\ UNCHANGED nonDispatchVars

Next ==
    \/ Authenticate
    \/ ParseBody
    \/ Delegate
    \/ NoDelegate
    \/ LoadConfig
    \/ LoadKeys
    \/ BeginAttempt
    \/ CompleteAttempt
    \/ Exhaust

Spec == Init /\ [][Next]_vars

\* the storage may fail any call of updateKeyUsage, logApiCall and
\* markKeyAsInvalid
FaultInit ==
    /\ Arrival
    /\ storageFaults = TRUE

FaultSpec == FaultInit /\ [][Next]_vars

-----------------------------------------------------------------------------
(* Properties of one request (specification Spec) *)

\* number of updateKeyUsage calls issued by the request
UsageTotal ==
    LET RECURSIVE Sum(_)
        Sum(k) == IF k = 0 THEN 0 ELSE usageCalls[k] + Sum(k - 1)
    IN Sum(NumKeys)

\* the loop over the candidates was left
LoopLeft == pc \in {"exhausted", "done", "crashed"}

\* the request is over, with or without a response
Terminated == pc \in {"done", "crashed"}

Failed(i) == upstreamResults[i].error # NoError

AllRetryableFailures ==
    /\ Len(upstreamResults) > 0
    /\ \A i \in 1..Len(upstreamResults) :
         Failed(i) /\ IsRetryableError(upstreamResults[i].error)

\* s lists every element of t exactly once
IsPermutationOf(s, t) ==
    /\ Len(s) = Len(t)
    /\ Range(s) = Range(t)
    /\ \A i, j \in 1..Len(s) : i # j => s[i] # s[j]

C3_NonRetryableStops ==
    \A i \in 1..Len(upstreamResults) :
        (Failed(i) /\ ~IsRetryableError(upstreamResults[i].error)) =>
            /\ i = Len(upstreamResults)
            /\ Len(upstreamCalls) = i
            /\ inflight = NoCall
            /\ pc \in {"exhausted", "done"}
            /\ pc = "done" =>
                 res = ErrorResponse(
                           ExhaustionError(handler, upstreamResults[i].error, i))

\* the credentials whose attempt failed with a retryable error that matches
\* the invalid-key pattern
InvalidKeyFailures ==
    {upstreamResults[i].key : i \in
        {j \in 1..Len(upstreamResults) :
            /\ Failed(j)
            /\ IsRetryableError(upstreamResults[j].error)
            /\ \/ Includes(upstreamResults[j].error.message, "API_KEY_INVALID")
               \/ Includes(upstreamResults[j].error.message, "Invalid API key")
               \/ Includes(upstreamResults[j].error.message, "API key not valid")}}

\* 3 credentials: 'quota exceeded', 'quota exceeded', then text
QuotaQuotaText ==
    /\ Len(availableKeys) = 3
    /\ Len(upstreamResults) = 3
    /\ upstreamResults[1].error.message = "quota exceeded"
    /\ upstreamResults[2].error.message = "quota exceeded"
    /\ ~Failed(3)

\* 1 credential failing with 'API_KEY_INVALID'
SingleInvalidKey ==
    /\ Len(availableKeys) = 1
    /\ Len(upstreamResults) = 1
    /\ upstreamResults[1].error.message = "API_KEY_INVALID"

C4_WitnessInvalidKey ==
    /\ SingleInvalidKey
    /\ invalidated # {}

\* the status the last failure's text stands for
FinalStatusOf(msg) ==
    IF Includes(msg, "quota") \/ Includes(msg, "QUOTA_EXCEEDED") THEN 429
    ELSE IF Includes(msg, "API_KEY_INVALID") \/ Includes(msg, "Invalid API key") THEN 401
    ELSE IF Includes(msg, "Empty response") THEN 502
    ELSE 503

\* every candidate was tried and none succeeded
AllTriedNoneSucceeded ==
    /\ Len(shuffledKeys) > 0
    /\ Len(upstreamResults) = Len(shuffledKeys)
    /\ \A i \in 1..Len(upstreamResults) : Failed(i)

\* C5: when all candidates were tried and none succeeded, the final status is
\* 429, 401, 502 or 503 according to the text of the last failure only.
C5_FinalStatusFromLastFailure ==
    (Terminated /\ AllTriedNoneSucceeded) =>
        /\ res.body = "error"
        /\ res.status = FinalStatusOf(upstreamResults[Len(upstreamResults)].error.message)

\* no row of gemini_keys is active and valid
NoEligibleKey ==
    \A k \in KeyIds : ~(geminiKeys[k].is_active /\ geminiKeys[k].is_valid)

\* the request passed authentication and body decoding and loaded the pool
PoolLoaded ==
    /\ pc \in {"loop", "exhausted", "done", "crashed"}
    /\ accessKeyId # None
    /\ request.bodyOk \/ handler = "node"

C7_SilentDowngrade ==
    (/\ request.stream
     /\ ~streamingConfig.enabled
     /\ ~streamingConfig.fake_stream_enabled) =>
        /\ \A i \in 1..Len(upstreamCalls) : upstreamCalls[i].strategy = "buffered"
        /\ res.contentType # "sse"

\* the strategy table: stream flag, real-enabled, fake-enabled
StrategyTable(isStream, realEnabled, fakeEnabled) ==
    IF ~isStream THEN "buffered"
    ELSE IF realEnabled THEN "real"
    ELSE IF fakeEnabled THEN "fake"
    ELSE "buffered"

\* C8: in both copies of the edge handler the strategy of every upstream call
\* is the one the table gives for (stream, real-enabled, fake-enabled); real
\* wins when both flags are set.
C8_StrategyTable ==
    handler \in {"edge", "edge2"} =>
        \A i \in 1..Len(upstreamCalls) :
            upstreamCalls[i].strategy =
                StrategyTable(request.stream, streamingConfig.enabled,
                              streamingConfig.fake_stream_enabled)

\* C9: response headers are written at most once, no attempt is made with
\* another credential once the response has started, and every request that
\* is over has exactly one complete response.
C9_OneResponse ==
    /\ headerWrites <= 1
    /\ lateAttempts = 0
    /\ pc # "crashed"
    /\ pc = "done" => (res.headersSent /\ res.ended)



-----------------------------------------------------------------------------
(* handleFakeStream: re-chunking of the buffered text *)

\* A text is a sequence of UTF-16 code units; one unit stands for each class
\* the code distinguishes: an ASCII letter, an ASCII blank, an ASCII
\* punctuation mark of the set .,!?;: , a non-ASCII letter (CJK), a
\* non-ASCII blank (U+3000, matched by \s and removed by trim()), and the
\* high and the low surrogate of a code point above U+FFFF (an emoji).
Units == {"a", " ", ".", "cjk", "u3000", "hi", "lo"}

\* charCodeAt(0) > 127
IsNonAscii(u) == u \in {"cjk", "u3000", "hi", "lo"}

\* the text of an upstream answer is well-formed UTF-16: surrogates come in
\* pairs, a high one followed by a low one
WellFormed(text) ==
    \A i \in DOMAIN text :
        /\ text[i] = "hi" => (i < Len(text) /\ text[i + 1] = "lo")
        /\ text[i] = "lo" => (i > 1 /\ text[i - 1] = "hi")

\* /[\s\.,!?;:]/.test(u)
IsSeparator(u) == u \in {" ", ".", "u3000"}

\* the units String.prototype.trim removes
IsBlank(u) == u \in {" ", "u3000"}

\* s.trim() is the empty string
TrimsToEmpty(s) == \A i \in DOMAIN s : IsBlank(s[i])

\* const chunkSize = Math.max(15, Math.floor(fullText.length / 15)) (first copy)
MinChunkSize == 15

ChunkDivisor == 15

\* const chunkSize = 3 (second copy)
FixedChunkSize == 3

ChunkSize(variant, text) ==
    IF variant = "edge" THEN Max(MinChunkSize, Len(text) \div ChunkDivisor)
    ELSE FixedChunkSize

\* text.slice(from, to) with 0-based positions
Slice(text, from, to) == SubSeq(text, from + 1, Min(to, Len(text)))

\* the inner while loop: move endIndex backward over non-ASCII units that are
\* no separators (positions are 0-based, text[e + 1] is fullText[e])
RECURSIVE SeekBack(_, _, _)
SeekBack(text, cur, e) ==
    IF e > cur /\ IsNonAscii(text[e + 1]) /\ ~IsSeparator(text[e + 1])
    THEN SeekBack(text, cur, e - 1)
    ELSE e

\* endIndex of the chunk that starts at cur (first copy, lines 225-244)
EndIndex(text, cur) ==
    LET e0 == Min(cur + ChunkSize("edge", text), Len(text)) IN
    IF e0 < Len(text) /\ IsNonAscii(text[e0 + 1])
    THEN LET e1 == SeekBack(text, cur, e0) IN
         IF e1 > cur /\ IsSeparator(text[e1 + 1]) THEN e1 + 1 ELSE e1
    ELSE e0

\* whether the chunk is enqueued: if (chunkText.trim()) in the first copy,
\* if (chunkText) in the second
EmitsChunk(variant, chunkText) ==
    IF variant = "edge" THEN ~TrimsToEmpty(chunkText) ELSE Len(chunkText) > 0

\* one pass of the loop body: the chunk cut at cur and the next currentIndex
NextChunk(variant, text, cur) ==
    IF variant = "edge"
    THEN [text |-> Slice(text, cur, EndIndex(text, cur)), next |-> EndIndex(text, cur)]
    ELSE [text |-> Slice(text, cur, cur + FixedChunkSize), next |-> cur + FixedChunkSize]

\* concatenation of the chunk texts
RECURSIVE Concat(_)
Concat(chunks) ==
    IF Len(chunks) = 0 THEN <<>> ELSE Head(chunks) \o Concat(Tail(chunks))

\* the texts of the model: a run of one unit followed by a short tail
PadLens == {0, 13, 14, 15, 16}

Pad(u, n) == [i \in 1..n |-> u]

Tails == UNION {[1..n -> Units] : n \in 0..MaxTail}

Texts == {t \in {Pad(u, n) \o w : u \in Units, n \in PadLens, w \in Tails} :
             WellFormed(t)}

\* handleFakeStream of the first copy throws before the stream is built when
\* the text is empty or blank; the second copy streams any text
StreamedTexts(variant) ==
    IF variant = "edge" THEN {t \in Texts : ~TrimsToEmpty(t)} ELSE Texts

\* the local state of a handler that returned an event stream
HandlerReturned ==
    /\ pc = "done"
    /\ accessKeyId = None
    /\ availableKeys = <<>>
    /\ shuffledKeys = <<>>
    /\ idx = 1
    /\ triedKeys = <<>>
    /\ lastError = NoError
    /\ inflight = NoCall
    /\ upstreamCalls = <<>>
    /\ upstreamResults = <<>>
    /\ usageCalls = [k \in KeyIds |-> 0]
    /\ callLogs = <<>>
    /\ invalidated = {}
    /\ res = SseResponse("stream", TRUE)
    /\ headerWrites = 1
    /\ lateAttempts = 0
    /\ storageFaults = FALSE
    /\ effectFailed = FALSE

\* the handler h returned the event stream of a streaming attempt
DispatchServed(h, cfg) ==
    /\ handler = h
    /\ request = [auth |-> "valid", bodyOk |-> TRUE, stream |-> TRUE]
    /\ streamingConfig = cfg
    /\ geminiKeys = KeyTable(NumKeys)
    /\ kvCache = <<>>
    /\ HandlerReturned

DispatchIdle ==
    DispatchServed("edge", [enabled |-> FALSE, fake_stream_enabled |-> TRUE])

ChunkInit ==
    /\ SettingsIdle
    /\ ParamIdle
    /\ UsageIdle
    /\ DispatchIdle
    /\ RealIdle
    /\ PoolIdle
    /\ ConvIdle
    /\ ModelsIdle
    /\ LogIdle
    /\ ClassifyIdle
    /\ fsVariant \in {"edge", "edge2"}
    /\ fullText \in StreamedTexts(fsVariant)
    /\ fsPc = "start"
    /\ currentIndex = 0
    /\ emitted = <<>>
    /\ frames = <<>>
    /\ streamClosed = FALSE
    /\ cancelled = FALSE
    /\ fsTick = FALSE

\* one pass of the loop body at currentIndex, after the frames of prefix; the
\* first copy goes on to the terminal chunk (finish_reason 'stop'), the [DONE]
\* marker and close() when the pass was the last one: no await lies between
ChunkPass(prefix) ==
    LET c == NextChunk(fsVariant, fullText, currentIndex)
        last == fsVariant = "edge" /\ c.next >= Len(fullText)
        sent == IF EmitsChunk(fsVariant, c.text) THEN <<"content">> ELSE <<>>
    IN /\ fsTick' = ~fsTick
       /\ currentIndex' = c.next
       /\ emitted' = IF EmitsChunk(fsVariant, c.text)
                     THEN Append(emitted, c.text) ELSE emitted
       /\ frames' = prefix \o sent \o (IF last THEN <<"finish", "done">> ELSE <<>>)
       /\ streamClosed' = IF last THEN TRUE ELSE streamClosed
       /\ fsPc' = IF last THEN "finished" ELSE "loop"

\* start(controller) of the first copy up to its first await: ': connected',
\* then the first pass of the loop
FakeStreamOpen ==
    /\ fsPc = "start"
    /\ fsVariant = "edge"
    /\ ChunkPass(<<"connected">>)
    /\ UNCHANGED <<fullText, fsVariant, cancelled>>
    /\ UNCHANGED nonChunkVars

\* the first copy after a pacing delay: the loop test, then one more pass
FakeStreamStep ==
    /\ fsPc = "loop"
    /\ fsVariant = "edge"
    /\ IF streamClosed
       THEN /\ fsPc' = "stopped"
            /\ UNCHANGED <<currentIndex, emitted, frames, streamClosed, fsTick>>
       ELSE ChunkPass(frames)
    /\ UNCHANGED <<fullText, fsVariant, cancelled>>
    /\ UNCHANGED nonChunkVars

\* start(controller) of the second copy: ': connected' and a timer for sendChunk
FakeStreamOpen2 ==
    /\ fsPc = "start"
    /\ fsVariant = "edge2"
    /\ frames' = <<"connected">>
    /\ fsPc' = "loop"
    /\ UNCHANGED <<fullText, fsVariant, currentIndex, emitted, streamClosed, cancelled,
                   fsTick>>
    /\ UNCHANGED nonChunkVars

\* sendChunk of the second copy, run by a timer; enqueue throws once the
\* caller cancelled the stream, and no further timer is set
SendChunk ==
    /\ fsPc = "loop"
    /\ fsVariant = "edge2"
    /\ IF cancelled
       THEN /\ fsPc' = "stopped"
            /\ UNCHANGED <<currentIndex, emitted, frames, streamClosed, fsTick>>
       ELSE IF currentIndex < Len(fullText)
       THEN ChunkPass(frames)
       ELSE /\ frames' = frames \o <<"finish", "done">>
            /\ fsPc' = "finished"
            /\ UNCHANGED <<currentIndex, emitted, streamClosed, fsTick>>
    /\ UNCHANGED <<fullText, fsVariant, cancelled>>
    /\ UNCHANGED nonChunkVars

\* the caller cancels the response: cancel() of the first copy sets
\* streamClosed, the second copy has no cancel callback
CancelStream ==
    /\ fsPc = "loop"
    /\ ~cancelled
    /\ cancelled' = TRUE
    /\ streamClosed' = IF fsVariant = "edge" THEN TRUE ELSE streamClosed
    /\ UNCHANGED <<fullText, fsVariant, fsPc, currentIndex, emitted, frames, fsTick>>
    /\ UNCHANGED nonChunkVars

ChunkNext ==
    \/ FakeStreamOpen
    \/ FakeStreamStep
    \/ FakeStreamOpen2
    \/ SendChunk
    \/ CancelStream

ChunkSpec == ChunkInit /\ [][ChunkNext]_vars


-----------------------------------------------------------------------------
(* C10 *)

\* C10: in fake-stream mode the texts of the emitted content chunks, put
\* together in emission order, are the upstream full text, for every
\* non-empty full text (blank segments included).
C10_Reassembly ==
    (fsPc = "finished" /\ Len(fullText) > 0) => Concat(emitted) = fullText

-----------------------------------------------------------------------------
(* C11 *)

\* the timers of the pacing delays fire and the runtime calls start(): every
\* step of the stream task is eventually taken; the caller may never cancel
ChunkLiveSpec ==
    /\ ChunkInit
    /\ [][ChunkNext]_vars
    /\ WF_vars(FakeStreamOpen)
    /\ WF_vars(FakeStreamStep)
    /\ WF_vars(FakeStreamOpen2)
    /\ WF_vars(SendChunk)

\* C11: for every non-empty text the chunking loop terminates: unless the
\* caller cancelled, the stream eventually ends with the terminal chunk and
\* the [DONE] marker.
C11_Terminates ==
    <>(cancelled \/ (fsPc = "finished" /\ Len(frames) >= 2
                     /\ SubSeq(frames, Len(frames) - 1, Len(frames)) = <<"finish", "done">>))


-----------------------------------------------------------------------------
(* Real streaming: handleRealStream (both copies) and the streaming branch of
   callGeminiWithKey *)

\* chunk.text() of one upstream chunk: empty, blank, or text
ChunkTexts == {"", " ", "a", "b"}

\* result.stream: the chunks it yields, then it completes or throws
UpstreamStreams ==
    {[chunks |-> c, ending |-> e] :
        c \in UNION {[1..n -> ChunkTexts] : n \in 0..MaxChunks},
        e \in {"complete", "throws"}}

\* the fixed apology of the first copy
FallbackText == "fallbackText"

\* the text the second copy sends for a stream error
StreamErrorText == "[Error: errorMessage]"

\* s.trim() is empty, for the texts of the model
IsBlankString(str) == \A i \in 1..Len(str) : SubSeq(str, i, i) = " "

\* ': connected'
ConnectedFrame == [kind |-> "comment", content |-> "", finish_reason |-> "null"]

\* data: convertGeminiStreamToOpenAI({ text }, model)
ContentFrame(text) == [kind |-> "chunk", content |-> text, finish_reason |-> "null"]

\* data: the chunk with delta {} and finish_reason 'stop'
FinishFrame == [kind |-> "chunk", content |-> "", finish_reason |-> "stop"]

\* data: [DONE]
DoneFrame == [kind |-> "done", content |-> "", finish_reason |-> "null"]

\* what is written when the stream starts
OpeningFrames(variant) ==
    IF variant = "node" THEN <<>> ELSE <<ConnectedFrame>>

\* what is written once the loop over result.stream is left without a cancel;
\* the streaming branch of callGeminiWithKey writes nothing when the loop threw
ClosingFrames(variant, ending, hasC, accumulated) ==
    CASE variant = "edge" ->
           (IF ~hasC \/ IsBlankString(accumulated)
            THEN <<ContentFrame(FallbackText)>> ELSE <<>>)
           \o <<FinishFrame, DoneFrame>>
      [] variant = "edge2" ->
           (IF ending = "throws" THEN <<ContentFrame(StreamErrorText)>> ELSE <<>>)
           \o <<FinishFrame, DoneFrame>>
      [] OTHER ->
           IF ending = "throws" THEN <<>> ELSE <<DoneFrame>>

RealInit ==
    /\ SettingsIdle
    /\ ParamIdle
    /\ UsageIdle
    /\ rsVariant \in Handlers
    /\ DispatchServed(rsVariant,
                      [enabled |-> rsVariant # "node", fake_stream_enabled |-> FALSE])
    /\ ChunkIdle
    /\ PoolIdle
    /\ ConvIdle
    /\ ModelsIdle
    /\ LogIdle
    /\ ClassifyIdle
    /\ upstream \in UpstreamStreams
    /\ rsPc = "start"
    /\ rsIndex = 0
    /\ rsFrames = <<>>
    /\ hasContent = FALSE
    /\ accumulatedText = ""
    /\ rsClosed = FALSE
    /\ rsCancelled = FALSE
    /\ rsEnd = "none"

\* a response stream that accepts frames after the caller cancelled it
\* (faulty variant)
Enqueue_AfterCancel(fs, newFrames, isCancelled) == fs \o newFrames

\* controller.enqueue / res.write of frames: a stream the caller cancelled is
\* closed and its controller.enqueue throws a TypeError, a response whose
\* connection is gone drops what is written to it
Enqueue(fs, newFrames, isCancelled) ==
    IF isCancelled THEN fs ELSE fs \o newFrames

\* the loop over result.stream is left: the closing frames, then close() / end().
\* The first copy sends its finish chunk and [DONE] only while streamClosed is
\* not set. After a cancel the first enqueue throws; the catch blocks of both
\* copies enqueue nothing that is accepted.
LeaveLoop(ending) ==
    /\ rsEnd' = ending
    /\ LET closing == ClosingFrames(rsVariant, ending, hasContent, accumulatedText)
           attempted == IF rsVariant = "edge" /\ rsClosed
                        THEN SubSeq(closing, 1, Len(closing) - 2)
                        ELSE closing
       IN  rsFrames' = Enqueue(rsFrames, attempted, rsCancelled)
    /\ rsClosed' = IF rsVariant = "edge" THEN TRUE ELSE rsClosed
    /\ rsPc' = IF rsVariant = "node" /\ ending = "throws" THEN "failed"
               ELSE IF rsCancelled THEN "stopped"
               ELSE "closed"
    /\ UNCHANGED <<rsIndex, hasContent, accumulatedText>>

\* start(controller) up to the first await; writeHead in callGeminiWithKey
RealStreamOpen ==
    /\ rsPc = "start"
    /\ rsFrames' = OpeningFrames(rsVariant)
    /\ rsPc' = "iter"
    /\ UNCHANGED <<rsVariant, upstream, rsIndex, hasContent, accumulatedText,
                   rsClosed, rsCancelled, rsEnd>>
    /\ UNCHANGED nonRealVars

\* result.stream yields its next chunk: the loop body. The first copy leaves
\* the loop when streamClosed is set or when more than maxStreamDuration has
\* passed; the second copy leaves it when its enqueue throws.
RealStreamChunk ==
    /\ rsPc = "iter"
    /\ rsIndex < Len(upstream.chunks)
    /\ \E timedOut \in {FALSE, rsVariant = "edge"} :
         LET text == upstream.chunks[rsIndex + 1] IN
         IF rsVariant = "edge" /\ rsClosed
         THEN LeaveLoop("break")
         ELSE IF timedOut
         THEN LeaveLoop("timeout")
         ELSE IF rsVariant = "edge2" /\ rsCancelled /\ text # ""
         THEN LeaveLoop("refused")
         ELSE /\ rsIndex' = rsIndex + 1
              /\ rsFrames' = IF text # ""
                             THEN Enqueue(rsFrames, <<ContentFrame(text)>>, rsCancelled)
                             ELSE rsFrames
              /\ hasContent' = IF rsVariant = "edge" /\ text # "" THEN TRUE
                               ELSE hasContent
              /\ accumulatedText' = IF rsVariant = "edge" THEN accumulatedText \o text
                                    ELSE accumulatedText
              /\ UNCHANGED <<rsPc, rsClosed, rsEnd>>
    /\ UNCHANGED <<rsVariant, upstream, rsCancelled>>
    /\ UNCHANGED nonRealVars

\* result.stream completes or throws after its last chunk
RealStreamEnd ==
    /\ rsPc = "iter"
    /\ rsIndex = Len(upstream.chunks)
    /\ LeaveLoop(upstream.ending)
    /\ UNCHANGED <<rsVariant, upstream, rsCancelled>>
    /\ UNCHANGED nonRealVars

\* the caller cancels the response stream while the writer awaits the next
\* chunk: cancel() of the first copy sets streamClosed; the writer goes on
RealStreamCancel ==
    /\ rsPc = "iter"
    /\ ~rsCancelled
    /\ rsCancelled' = TRUE
    /\ rsClosed' = IF rsVariant = "edge" THEN TRUE ELSE rsClosed
    /\ UNCHANGED <<rsVariant, rsPc, upstream, rsIndex, rsFrames, hasContent,
                   accumulatedText, rsEnd>>
    /\ UNCHANGED nonRealVars

RealNext ==
    \/ RealStreamOpen
    \/ RealStreamChunk
    \/ RealStreamEnd
    \/ RealStreamCancel

RealSpec == RealInit /\ [][RealNext]_vars

\* the non-empty texts of a list of upstream chunks, in order
RECURSIVE NonEmptyTexts(_)
NonEmptyTexts(chunks) ==
    IF Len(chunks) = 0 THEN <<>>
    ELSE (IF Head(chunks) # "" THEN <<Head(chunks)>> ELSE <<>>)
         \o NonEmptyTexts(Tail(chunks))

\* the frames of a response that carry content
RECURSIVE ContentOf(_)
ContentOf(fs) ==
    IF Len(fs) = 0 THEN <<>>
    ELSE (IF Head(fs).kind = "chunk" /\ Head(fs).finish_reason = "null"
          THEN <<Head(fs).content>> ELSE <<>>)
         \o ContentOf(Tail(fs))

\* the upstream stream completed normally and the response was written to its end
CompletedNormally == rsPc = "closed" /\ rsEnd = "complete"

\* C12: after the upstream stream completed normally the response carries the
\* upstream content in order, then exactly one chunk with finish_reason
\* 'stop', then [DONE] as its last frame.
C12_RealStreamFrames ==
    CompletedNormally =>
        LET n == Len(rsFrames)
            texts == NonEmptyTexts(upstream.chunks)
            content == ContentOf(rsFrames)
        IN /\ n >= 2
           /\ rsFrames[n] = DoneFrame
           /\ rsFrames[n - 1] = FinishFrame
           /\ \A i \in 1..(n - 2) : rsFrames[i] \notin {FinishFrame, DoneFrame}
           /\ Len(content) >= Len(texts)
           /\ SubSeq(content, 1, Len(texts)) = texts

\* C13: when the upstream stream completes without content the fallback
\* apology is sent as a content chunk; every completed real-stream response
\* has a content chunk with non-empty text.
C13_FallbackOnNoContent ==
    CompletedNormally =>
        /\ NonEmptyTexts(upstream.chunks) = <<>> =>
             ContentOf(rsFrames) = <<FallbackText>>
        /\ \E i \in 1..Len(rsFrames) :
             /\ rsFrames[i].kind = "chunk"
             /\ rsFrames[i].finish_reason = "null"
             /\ rsFrames[i].content # ""

-----------------------------------------------------------------------------
(* C14 *)

\* attempt i used the fake-stream or the buffered strategy and the upstream
\* returned empty or blank text
EmptyTextAttempt(i) ==
    /\ upstreamCalls[i].strategy \in {"fake", "buffered"}
    /\ upstreamResults[i].kind = "empty"

\* C14: in fake-stream and buffered modes an empty upstream text is an attempt
\* failure: it is logged as a failure, no success response is returned for it
\* and the loop goes on to the next candidate.
C14_EmptyTextFails ==
    \A i \in 1..Len(upstreamResults) :
        EmptyTextAttempt(i) =>
            /\ Failed(i)
            /\ callLogs[i].response_status_code # 200
            /\ i < Len(shuffledKeys) => pc = "loop" \/ Len(upstreamCalls) > i

-----------------------------------------------------------------------------
(* The credential pool under concurrency: lib/key-manager (production branch)
   and the PUT / DELETE branches of admin/gemini-keys *)

Loaders == 1..NumLoaders

\* the rows a select with is_active = true and is_valid = true matches
Eligible(table) == {k \in KeyIds : table[k].is_active /\ table[k].is_valid}

\* a deleted row matches no select and no update
DeletedRow == [is_active |-> FALSE, is_valid |-> FALSE]

\* what getAllAvailableGeminiKeys gives its caller: a list, or an ApiError
KeysResult(keys) == [kind |-> "keys", keys |-> keys]

ThrownResult(apiError) == [kind |-> "error", error |-> ToJSON(apiError)]

PoolInit ==
    /\ SettingsIdle
    /\ ParamIdle
    /\ UsageIdle
    /\ handler = "edge"
    /\ request = [auth |-> "valid", bodyOk |-> TRUE, stream |-> FALSE]
    /\ streamingConfig = [enabled |-> TRUE, fake_stream_enabled |-> FALSE]
    /\ HandlerReturned
    /\ geminiKeys \in KeyTables
    /\ kvCache = <<>>
    /\ ChunkIdle
    /\ RealIdle
    /\ PoolIdle
    /\ ConvIdle
    /\ ModelsIdle
    /\ LogIdle
    /\ ClassifyIdle

\* a call of getAllAvailableGeminiKeys starts: kv.get; a non-empty cached
\* list is returned as it is
LoaderKvGet(l) ==
    /\ ldPc[l] = "idle"
    /\ ldSeen' = [ldSeen EXCEPT ![l] = Eligible(geminiKeys)]
    /\ ldAfterMark' = [ldAfterMark EXCEPT ![l] = (mkPc = "done")]
    /\ IF Len(kvCache) > 0
       THEN /\ ldKeys' = [ldKeys EXCEPT ![l] = kvCache]
            /\ ldResult' = [ldResult EXCEPT ![l] = KeysResult(kvCache)]
            /\ ldPc' = [ldPc EXCEPT ![l] = "done"]
       ELSE /\ ldPc' = [ldPc EXCEPT ![l] = "fetch"]
            /\ UNCHANGED <<ldKeys, ldResult>>
    /\ UNCHANGED <<geminiKeys, kvCache, ldDbFailed, mkPc, mkKey, adminOps, cacheExpired>>
    /\ UNCHANGED nonPoolVars

\* fetchKeysFromDb: the select answers, or fails and [] is returned; an empty
\* list makes getAllAvailableGeminiKeys throw ApiError(503)
LoaderFetch(l) ==
    /\ ldPc[l] = "fetch"
    /\ \E ok \in BOOLEAN :
         LET keys == IF ok THEN FetchKeysFromDb(geminiKeys) ELSE <<>> IN
         /\ ldDbFailed' = [ldDbFailed EXCEPT ![l] = ~ok]
         /\ ldKeys' = [ldKeys EXCEPT ![l] = keys]
         /\ IF Len(keys) > 0
            THEN /\ ldPc' = [ldPc EXCEPT ![l] = "setex"]
                 /\ UNCHANGED ldResult
            ELSE /\ ldPc' = [ldPc EXCEPT ![l] = "done"]
                 /\ ldResult' = [ldResult EXCEPT ![l] = ThrownResult(ApiError(503, ""))]
    /\ UNCHANGED <<geminiKeys, kvCache, ldSeen, ldAfterMark, mkPc, mkKey, adminOps,
                   cacheExpired>>
    /\ UNCHANGED nonPoolVars

\* kv.setex(CACHE_KEY, CACHE_TTL, keys), then the list is returned
LoaderSetex(l) ==
    /\ ldPc[l] = "setex"
    /\ kvCache' = ldKeys[l]
    /\ ldResult' = [ldResult EXCEPT ![l] = KeysResult(ldKeys[l])]
    /\ ldPc' = [ldPc EXCEPT ![l] = "done"]
    /\ UNCHANGED <<geminiKeys, ldKeys, ldSeen, ldDbFailed, ldAfterMark, mkPc, mkKey,
                   adminOps, cacheExpired>>
    /\ UNCHANGED nonPoolVars

\* markKeyAsInvalid(c): the update of the row
MarkUpdate(c) ==
    /\ mkPc = "idle"
    /\ mkKey' = c
    /\ mkPc' = "updated"
    /\ geminiKeys' = IF geminiKeys[c] = DeletedRow THEN geminiKeys
                     ELSE [geminiKeys EXCEPT ![c].is_valid = FALSE]
    /\ UNCHANGED <<kvCache, ldPc, ldKeys, ldResult, ldSeen, ldDbFailed, ldAfterMark,
                   adminOps, cacheExpired>>
    /\ UNCHANGED nonPoolVars

\* markKeyAsInvalid(c): kv.del(CACHE_KEY), then it returns
MarkDel ==
    /\ mkPc = "updated"
    /\ kvCache' = <<>>
    /\ mkPc' = "done"
    /\ UNCHANGED <<geminiKeys, ldPc, ldKeys, ldResult, ldSeen, ldDbFailed, ldAfterMark,
                   mkKey, adminOps, cacheExpired>>
    /\ UNCHANGED nonPoolVars

\* the calls under way see every key that becomes active and valid
SeenAfter(table) ==
    [l \in Loaders |-> IF ldPc[l] \in {"fetch", "setex"}
                       THEN ldSeen[l] \cup Eligible(table) ELSE ldSeen[l]]

\* PUT admin/gemini-keys {id, is_active}: the row is updated, the cache is not
AdminPut(id, active) ==
    /\ adminOps < MaxAdminOps
    /\ adminOps' = adminOps + 1
    /\ geminiKeys' = IF geminiKeys[id] = DeletedRow THEN geminiKeys
                     ELSE [geminiKeys EXCEPT ![id].is_active = active]
    /\ ldSeen' = SeenAfter(geminiKeys')
    /\ UNCHANGED <<kvCache, ldPc, ldKeys, ldResult, ldDbFailed, ldAfterMark, mkPc,
                   mkKey, cacheExpired>>
    /\ UNCHANGED nonPoolVars

\* DELETE admin/gemini-keys {id}: the row is deleted, the cache is not touched
AdminDelete(id) ==
    /\ adminOps < MaxAdminOps
    /\ adminOps' = adminOps + 1
    /\ geminiKeys' = [geminiKeys EXCEPT ![id] = DeletedRow]
    /\ UNCHANGED <<kvCache, ldPc, ldKeys, ldResult, ldSeen, ldDbFailed, ldAfterMark,
                   mkPc, mkKey, cacheExpired>>
    /\ UNCHANGED nonPoolVars

\* the kv entry expires CACHE_TTL seconds after kv.setex
CacheExpire ==
    /\ ~cacheExpired
    /\ Len(kvCache) > 0
    /\ kvCache' = <<>>
    /\ cacheExpired' = TRUE
    /\ UNCHANGED <<geminiKeys, ldPc, ldKeys, ldResult, ldSeen, ldDbFailed, ldAfterMark,
                   mkPc, mkKey, adminOps>>
    /\ UNCHANGED nonPoolVars

PoolNext ==
    \/ \E l \in Loaders : LoaderKvGet(l)
    \/ \E l \in Loaders : LoaderFetch(l)
    \/ \E l \in Loaders : LoaderSetex(l)
    \/ \E c \in KeyIds : MarkUpdate(c)
    \/ MarkDel
    \/ \E id \in KeyIds, active \in BOOLEAN : AdminPut(id, active)
    \/ \E id \in KeyIds : AdminDelete(id)
    \/ CacheExpire

PoolSpec == PoolInit /\ [][PoolNext]_vars

\* C15: every credential a request obtains for dispatch was active and valid
\* in storage at some time between the start of its lookup and its return; a
\* credential deactivated, deleted or marked invalid before the lookup
\* started is not in the list.
C15_OnlyEligibleKeys ==
    \A l \in Loaders :
        ldResult[l].kind = "keys" => Range(ldResult[l].keys) \subseteq ldSeen[l]

\* C16: a call of getAllAvailableGeminiKeys that starts after
\* markKeyAsInvalid(c) has completed does not return c.
C16_InvalidatedKeyNotReturned ==
    \A l \in Loaders :
        (ldAfterMark[l] /\ ldResult[l].kind = "keys") =>
            mkKey \notin Range(ldResult[l].keys)

\* C17: when the select of fetchKeysFromDb fails, the caller gets an error
\* that is not the empty-pool error (503, no_available_keys), and no list.
C17_StorageFailureReported ==
    \A l \in Loaders :
        (ldDbFailed[l] /\ ldPc[l] = "done") =>
            /\ ldResult[l].kind = "error"
            /\ ldResult[l].error.type # "no_available_keys"
            /\ ldResult[l].error.code # "503"

-----------------------------------------------------------------------------
(* C18 *)

\* C18: a request whose Authorization header is missing, is no Bearer token,
\* carries a secret without the 'sk-' prefix or matches no active access key
\* ends with 401 at once: no pool lookup, upstream call, usage update or log.
C18_UnauthorizedIsTerminal ==
    (request.auth # "valid" /\ pc # "auth") =>
        /\ pc = "done"
        /\ res = ErrorResponse(ApiError(401, ""))
        /\ accessKeyId = None
        /\ availableKeys = <<>>
        /\ Len(upstreamCalls) = 0
        /\ UsageTotal = 0
        /\ Len(callLogs) = 0

\* a secret that matches an active access key but lacks the prefix was
\* rejected while the pool had eligible credentials
C18_Witness ==
    /\ request.auth = "noPrefix"
    /\ pc = "done"
    /\ res.status = 401
    /\ Eligible(geminiKeys) # {}

-----------------------------------------------------------------------------
(* C19 *)

\* C19: an authenticated request whose body is malformed ends with the 400
\* error and is terminal: it never reaches the pool or the upstream.
C19_BadRequestIsTerminal ==
    (accessKeyId # None /\ ~request.bodyOk) =>
        /\ pc \in {"parse", "done"}
        /\ pc = "done" => res = ErrorResponse(ApiError(400, ""))
        /\ availableKeys = <<>>
        /\ Len(upstreamCalls) = 0

-----------------------------------------------------------------------------
(* Building the upstream request: the handlers' preparation of the messages
   and convertOpenAItoGemini *)

\* msg.role; "tool" stands for every role convertOpenAItoGemini drops
Roles == {"system", "user", "assistant", "tool"}

MessageLists ==
    UNION {[1..n -> [role : Roles, content : {"hi", "you"}]] : n \in 0..MaxMessages}

\* generateDisguiseString(): 6 characters out of A-Z, a-z, 0-9
DisguiseStrings == {"AAAAAA", "q7Rz0k"}

\* `\n<!-- req_${Date.now()}_${Math.random()...} -->` of the first edge copy:
\* the clock and the random part differ from one request to the next
RequestMarkers == {"\n<!-- req_1_abcdefghi -->", "\n<!-- req_2_jklmnopqr -->"}

\* the messages handed to convertOpenAItoGemini: the first copy of the edge
\* handler appends a marker to the last message when its role is user
EnhancedMessages(h, messages, marker) ==
    IF /\ h = "edge"
       /\ Len(messages) > 0
       /\ messages[Len(messages)].role = "user"
    THEN [messages EXCEPT ![Len(messages)].content = @ \o marker]
    ELSE messages

\* messages.findIndex(m => m.role === 'user'), 1-based; 0 when there is none
FirstUserMessageIndex(messages) ==
    IF \E i \in DOMAIN messages : messages[i].role = "user"
    THEN CHOOSE i \in DOMAIN messages :
             /\ messages[i].role = "user"
             /\ \A j \in 1..(i - 1) : messages[j].role # "user"
    ELSE 0

\* a conversion that hands the assistant role on as it is (faulty variant)
ConvertMessage_KeepsAssistant(messages, i, disguise, token) ==
    LET msg == messages[i] IN
    CASE msg.role = "system" ->
           <<[role |-> "user", text |-> "System: " \o msg.content, index |-> i]>>
      [] msg.role \in {"user", "assistant"} ->
           <<[role |-> msg.role, text |-> msg.content, index |-> i]>>
      [] OTHER -> <<>>

\* the entry of contents for message i (its position is kept), <<>> for a
\* message that is dropped
ConvertMessage(messages, i, disguise, token) ==
    LET msg == messages[i]
        content == IF disguise /\ msg.role = "user"
                      /\ i = FirstUserMessageIndex(messages)
                   THEN msg.content \o " [" \o token \o "]"
                   ELSE msg.content
    IN CASE msg.role = "system" ->
              <<[role |-> "user", text |-> "System: " \o content, index |-> i]>>
         [] msg.role = "user" ->
              <<[role |-> "user", text |-> content, index |-> i]>>
         [] msg.role = "assistant" ->
              <<[role |-> "model", text |-> content, index |-> i]>>
         [] OTHER -> <<>>

\* messages.map(...).filter(Boolean); one disguise string is drawn for the
\* single message it is added to
RECURSIVE ConvertFrom(_, _, _, _)
ConvertFrom(messages, i, disguise, token) ==
    IF i > Len(messages) THEN <<>>
    ELSE ConvertMessage(messages, i, disguise, token)
         \o ConvertFrom(messages, i + 1, disguise, token)

ConvertOpenAItoGemini(messages, disguise, token) ==
    ConvertFrom(messages, 1, disguise, token)

ConvInit ==
    /\ SettingsIdle
    /\ ParamIdle
    /\ UsageIdle
    /\ cvHandler \in Handlers
    /\ DispatchServed(cvHandler, [enabled |-> TRUE, fake_stream_enabled |-> FALSE])
    /\ ChunkIdle
    /\ RealIdle
    /\ PoolIdle
    /\ ModelsIdle
    /\ LogIdle
    /\ ClassifyIdle
    /\ cvMessages \in MessageLists
    /\ cvDisguise \in BOOLEAN
    /\ cvContents = <<>>
    /\ cvPc = "start"
    /\ cvEarlier = <<>>

\* geminiRequest.contents as the handler builds it for the body it received
BuiltContents(marker, token) ==
    ConvertOpenAItoGemini(EnhancedMessages(cvHandler, cvMessages, marker),
                          cvDisguise, token)

\* the handler builds geminiRequest
BuildRequest ==
    /\ cvPc = "start"
    /\ \E marker \in RequestMarkers, token \in DisguiseStrings :
         cvContents' = BuiltContents(marker, token)
    /\ cvPc' = "built"
    /\ UNCHANGED <<cvHandler, cvMessages, cvDisguise, cvEarlier>>
    /\ UNCHANGED nonConvVars

\* a later request with the same body and the same settings is served
BuildAgain ==
    /\ cvPc = "built"
    /\ cvEarlier' = cvContents
    /\ \E marker \in RequestMarkers, token \in DisguiseStrings :
         cvContents' = BuiltContents(marker, token)
    /\ cvPc' = "rebuilt"
    /\ UNCHANGED <<cvHandler, cvMessages, cvDisguise>>
    /\ UNCHANGED nonConvVars

ConvNext ==
    \/ BuildRequest
    \/ BuildAgain

ConvSpec == ConvInit /\ [][ConvNext]_vars

\* the text of message i as it reaches the upstream when nothing is added
PlainText(msg) ==
    IF msg.role = "system" THEN "System: " \o msg.content ELSE msg.content

\* the messages whose text reaches the upstream changed
MutatedMessages ==
    {cvContents[j].index : j \in
        {k \in DOMAIN cvContents :
            cvContents[k].text # PlainText(cvMessages[cvContents[k].index])}}

\* C20: with the disguise flag enabled exactly one message is changed, the
\* first one with role user, and its content grows by the 6 characters of
\* the token plus the 3 of ' [' and ']'; every other message is unchanged.
C20_DisguiseFirstUserOnly ==
    (cvPc \in {"built", "rebuilt"} /\ cvDisguise) =>
        LET f == FirstUserMessageIndex(cvMessages) IN
        IF f = 0 THEN MutatedMessages = {}
        ELSE /\ MutatedMessages = {f}
             /\ \A j \in DOMAIN cvContents :
                  cvContents[j].index = f =>
                      Len(cvContents[j].text) = Len(cvMessages[f].content) + 6 + 3

-----------------------------------------------------------------------------
(* C21 *)

\* C21: with the disguise flag disabled no message reaches the upstream
\* changed, and two requests with the same body give the same upstream request.
C21_PlainAndDeterministic ==
    (cvPc \in {"built", "rebuilt"} /\ ~cvDisguise) =>
        /\ MutatedMessages = {}
        /\ cvPc = "rebuilt" => cvContents = cvEarlier

-----------------------------------------------------------------------------
(* C22 *)

\* the messages with one of the roles system, user and assistant, in order
RECURSIVE ConvertibleMessages(_)
ConvertibleMessages(messages) ==
    IF Len(messages) = 0 THEN <<>>
    ELSE (IF Head(messages).role \in {"system", "user", "assistant"}
          THEN <<Head(messages)>> ELSE <<>>)
         \o ConvertibleMessages(Tail(messages))

\* C22: for every message list of length >= 1 the converted turns are, in the
\* original order, one per system, user or assistant message: a system
\* message gives a user turn whose text starts with 'System: ' followed by
\* its content, a user message a user turn and an assistant message a model
\* turn, each starting with the content of its message.
C22_RoleSemantics ==
    (cvPc \in {"built", "rebuilt"} /\ Len(cvMessages) >= 1) =>
        LET kept == ConvertibleMessages(cvMessages) IN
        /\ Len(cvContents) = Len(kept)
        /\ \A k \in 1..Len(kept) :
             CASE kept[k].role = "system" ->
                    /\ cvContents[k].role = "user"
                    /\ StartsWith(cvContents[k].text, "System: " \o kept[k].content)
               [] kept[k].role = "user" ->
                    /\ cvContents[k].role = "user"
                    /\ StartsWith(cvContents[k].text, kept[k].content)
               [] OTHER ->
                    /\ cvContents[k].role = "model"
                    /\ StartsWith(cvContents[k].text, kept[k].content)

\* a system message, a message of another role and an assistant message
\* were converted into two turns
C22_Witness ==
    /\ cvPc = "built"
    /\ Len(cvMessages) = 3
    /\ cvMessages[1].role = "system"
    /\ cvMessages[2].role = "tool"
    /\ cvMessages[3].role = "assistant"
    /\ cvMessages[1].content # cvMessages[3].content
    /\ Len(cvContents) = 2

-----------------------------------------------------------------------------
(* C23 *)

\* the request ended with the error synthesized after the loop
EndedExhausted ==
    /\ pc = "done"
    /\ Len(upstreamResults) > 0
    /\ Failed(Len(upstreamResults))

\* C23: the error body does not tell how many credentials were tried: for the
\* last failure of the request the body is the one every other number of
\* attempts gives.
C23_BodyHidesAttempts ==
    EndedExhausted =>
        \A n \in 1..NumKeys :
            res.error = ToJSON(ExhaustionError(handler, lastError, n))

-----------------------------------------------------------------------------
(* The models endpoint: GET /v1/models *)

\* most entries of the provider's model listing
MaxModels == 2

\* one entry of googleResponse.models: its name and the type of that field
ModelEntries ==
    {[name |-> "models/gemini-pro", type |-> "string"],
     [name |-> "models/text-bison", type |-> "string"],
     [name |-> "", type |-> "undefined"],
     [name |-> "7", type |-> "number"]}

\* what the fetch of the provider's listing can do: reject, answer with a
\* status that is not ok, answer 200 with a body that is no JSON, with the
\* JSON value null, with an object without models, or with a list of models
ProviderListings ==
    {[kind |-> k] : k \in {"reject", "notJson", "null", "noModels"}}
    \cup {[kind |-> "status", status |-> st] : st \in {403, 500}}
    \cup {[kind |-> "models", models |-> m] :
             m \in UNION {[1..n -> ModelEntries] : n \in 0..MaxModels}}

\* String.prototype.replace(pattern, replacement) with a string pattern: the
\* first occurrence is replaced
ReplaceFirst(str, pattern, replacement) ==
    IF ~Includes(str, pattern) THEN str
    ELSE LET at == CHOOSE i \in 1..(Len(str) - Len(pattern) + 1) :
                       /\ SubSeq(str, i, i + Len(pattern) - 1) = pattern
                       /\ \A j \in 1..(i - 1) :
                            SubSeq(str, j, j + Len(pattern) - 1) # pattern
         IN SubSeq(str, 1, at - 1) \o replacement
            \o SubSeq(str, at + Len(pattern), Len(str))

\* model.name && model.name.includes('gemini') throws for a name that is
\* truthy and no string
FilterThrows(models) ==
    \E i \in DOMAIN models : models[i].type = "number"

\* the ids of the entries whose name contains 'gemini', without 'models/'
RECURSIVE ConvertModels(_)
ConvertModels(models) ==
    IF Len(models) = 0 THEN <<>>
    ELSE (IF Head(models).name # "" /\ Includes(Head(models).name, "gemini")
          THEN <<ReplaceFirst(Head(models).name, "models/", "")>> ELSE <<>>)
         \o ConvertModels(Tail(models))

\* an answer that reports the failure with status 500 (faulty variant)
EmptyList_ReportsException(cause) ==
    [status |-> IF cause = "exception" THEN 500 ELSE 200, data |-> <<>>]

\* res.status(200).json({ object: 'list', data: [] }) of the three places
\* that answer without a listing: no key, a listing that is not ok, the catch
EmptyList(cause) == [status |-> 200, data |-> <<>>]

ModelsInit ==
    /\ SettingsIdle
    /\ ParamIdle
    /\ UsageIdle
    /\ handler = "edge"
    /\ request = [auth |-> "valid", bodyOk |-> TRUE, stream |-> FALSE]
    /\ streamingConfig = [enabled |-> TRUE, fake_stream_enabled |-> FALSE]
    /\ HandlerReturned
    /\ geminiKeys \in KeyTables
    /\ kvCache = <<>>
    /\ ChunkIdle
    /\ RealIdle
    /\ PoolIdle
    /\ ConvIdle
    /\ LogIdle
    /\ ClassifyIdle
    /\ mdMethod \in {"GET", "POST"}
    /\ mdListing \in ProviderListings
    /\ mdPc = "start"
    /\ mdApiKey = None
    /\ mdRes = [status |-> None, data |-> <<>>]

\* the test of the method, then the select of one active row of gemini_keys;
\* the select may fail, and limit(1) without an order gives any active row
ModelsSelect ==
    /\ mdPc = "start"
    /\ IF mdMethod # "GET"
       THEN /\ mdRes' = [status |-> 405, data |-> <<>>]
            /\ mdPc' = "done"
            /\ UNCHANGED mdApiKey
       ELSE \E failed \in BOOLEAN :
              LET active == {k \in KeyIds : geminiKeys[k].is_active} IN
              IF failed \/ active = {}
              THEN /\ mdRes' = EmptyList("noKey")
                   /\ mdPc' = "done"
                   /\ UNCHANGED mdApiKey
              ELSE /\ mdApiKey' \in active
                   /\ mdPc' = "fetch"
                   /\ UNCHANGED mdRes
    /\ UNCHANGED <<mdMethod, mdListing>>
    /\ UNCHANGED nonModelsVars

\* the fetch of the listing and the conversion of its answer
ModelsFetch ==
    /\ mdPc = "fetch"
    /\ mdRes' =
         CASE mdListing.kind = "status" -> EmptyList("notOk")
           [] mdListing.kind \in {"reject", "notJson", "null"} -> EmptyList("exception")
           [] mdListing.kind = "noModels" -> [status |-> 200, data |-> <<>>]
           [] OTHER ->
                IF FilterThrows(mdListing.models) THEN EmptyList("exception")
                ELSE [status |-> 200, data |-> ConvertModels(mdListing.models)]
    /\ mdPc' = "done"
    /\ UNCHANGED <<mdMethod, mdListing, mdApiKey>>
    /\ UNCHANGED nonModelsVars

ModelsNext ==
    \/ ModelsSelect
    \/ ModelsFetch

ModelsSpec == ModelsInit /\ [][ModelsNext]_vars

\* the listing did not give a list of models the handler could convert
ListingFailed ==
    \/ mdListing.kind \in {"status", "reject", "notJson", "null"}
    \/ mdListing.kind = "models" /\ FilterThrows(mdListing.models)

\* C24: a GET on the models endpoint never gets an error status: it is
\* answered with 200, and with an empty list when no credential was found,
\* when the listing failed or when an exception occurred.
C24_ModelsNeverFails ==
    (mdMethod = "GET" /\ mdPc = "done") =>
        /\ mdRes.status = 200
        /\ (mdApiKey = None \/ ListingFailed) => mdRes.data = <<>>

\* the fetch of the listing was rejected and the handler answered
C24_Witness ==
    /\ mdMethod = "GET"
    /\ mdPc = "done"
    /\ mdApiKey # None
    /\ mdListing.kind = "reject"

-----------------------------------------------------------------------------
(* The attempt log: lib/logging and the key test of the admin panel *)

\* .range(MAX_LOG_COUNT, MAX_LOG_COUNT + 100): the offsets are inclusive
RangeSpan == 100

LogCalls == 1..NumLogCalls

\* the position of a row in order('timestamp', { ascending: false }), from 0
RankOf(rows, r) == Cardinality({x \in rows : x > r})

\* the rows the select of logApiCall returns
SelectOldLogs(rows) ==
    {r \in rows : /\ RankOf(rows, r) >= MaxLogCount
                  /\ RankOf(rows, r) <= MaxLogCount + RangeSpan}

LogInit ==
    /\ SettingsIdle
    /\ ParamIdle
    /\ UsageIdle
    /\ handler = "edge"
    /\ request = [auth |-> "valid", bodyOk |-> TRUE, stream |-> FALSE]
    /\ streamingConfig = [enabled |-> TRUE, fake_stream_enabled |-> FALSE]
    /\ HandlerReturned
    /\ geminiKeys = KeyTable(NumKeys)
    /\ kvCache = <<>>
    /\ ChunkIdle
    /\ RealIdle
    /\ PoolIdle
    /\ ConvIdle
    /\ ModelsIdle
    /\ \E n \in 0..MaxLogCount :
         /\ callLogRows = 1..n
         /\ logClock = n
    /\ logPc = [l \in LogCalls |-> "start"]
    /\ oldLogs = [l \in LogCalls |-> {}]
    /\ testInserts = 0
    /\ ClassifyIdle

\* logApiCall: the insert of the new row
LogInsert(l) ==
    /\ logPc[l] = "start"
    /\ logClock' = logClock + 1
    /\ callLogRows' = callLogRows \cup {logClock + 1}
    /\ logPc' = [logPc EXCEPT ![l] = "inserted"]
    /\ UNCHANGED <<oldLogs, testInserts>>
    /\ UNCHANGED nonLogVars

\* logApiCall: the select of the rows behind the newest MAX_LOG_COUNT
LogSelect(l) ==
    /\ logPc[l] = "inserted"
    /\ oldLogs' = [oldLogs EXCEPT ![l] = SelectOldLogs(callLogRows)]
    /\ logPc' = [logPc EXCEPT ![l] =
                    IF SelectOldLogs(callLogRows) = {} THEN "done" ELSE "selected"]
    /\ UNCHANGED <<callLogRows, logClock, testInserts>>
    /\ UNCHANGED nonLogVars

\* logApiCall: the delete of the selected rows
LogDelete(l) ==
    /\ logPc[l] = "selected"
    /\ callLogRows' = callLogRows \ oldLogs[l]
    /\ logPc' = [logPc EXCEPT ![l] = "done"]
    /\ UNCHANGED <<logClock, oldLogs, testInserts>>
    /\ UNCHANGED nonLogVars

\* the key test writes the row of one tested key; no row is deleted
TestKeyInsert ==
    /\ testInserts < MaxTestInserts
    /\ testInserts' = testInserts + 1
    /\ logClock' = logClock + 1
    /\ callLogRows' = callLogRows \cup {logClock + 1}
    /\ UNCHANGED <<logPc, oldLogs>>
    /\ UNCHANGED nonLogVars

LogNext ==
    \/ \E l \in LogCalls : LogInsert(l)
    \/ \E l \in LogCalls : LogSelect(l)
    \/ \E l \in LogCalls : LogDelete(l)
    \/ TestKeyInsert

LogSpec == LogInit /\ [][LogNext]_vars

\* no call of logApiCall is between its insert and its return
NoLogCallInFlight == \A l \in LogCalls : logPc[l] \in {"start", "done"}

\* C25: starting from a table within the limit, whenever no log operation
\* is in flight the table call_logs has at most MAX_LOG_COUNT rows.
C25_LogCountBounded ==
    NoLogCallInFlight => Cardinality(callLogRows) <= MaxLogCount

-----------------------------------------------------------------------------
(* C26 *)

\* the attempts made are the candidates in order, each after a retryable
\* failure of the one before, up to the first success, the first
\* non-retryable failure or the end of the list
AttemptsAsDictated ==
    LET m == Len(upstreamResults) IN
    /\ Len(triedKeys) = m
    /\ Len(upstreamCalls) = m
    /\ triedKeys = SubSeq(shuffledKeys, 1, m)
    /\ \A i \in 1..(m - 1) : Failed(i) /\ IsRetryableError(upstreamResults[i].error)
    /\ m > 0 => \/ ~Failed(m)
                \/ ~IsRetryableError(upstreamResults[m].error)
                \/ m = Len(shuffledKeys)

\* the response is the one the last attempt dictates
ResponseAsDictated ==
    LET m == Len(upstreamResults) IN
    IF Failed(m)
    THEN res = ErrorResponse(ExhaustionError(handler, upstreamResults[m].error, m))
    ELSE /\ res.status = 200
         /\ res.body \in {"completion", "stream"}

\* C26: a failure of usage recording, attempt logging or credential
\* invalidation does not abort the request and changes neither the
\* candidates attempted nor the status and body of the response.
C26_SideEffectsIsolated ==
    effectFailed =>
        /\ LoopLeft => AttemptsAsDictated
        /\ (pc = "done" /\ Len(upstreamResults) > 0) => ResponseAsDictated

\* the invalidation of the first candidate failed (its row is still valid)
\* and the request was served by the second candidate
C26_Witness ==
    /\ effectFailed
    /\ pc = "done"
    /\ Len(upstreamResults) = 2
    /\ upstreamResults[1].key \in invalidated
    /\ geminiKeys[upstreamResults[1].key].is_valid
    /\ ~Failed(2)
    /\ res.status = 200

-----------------------------------------------------------------------------
(* C27 *)

-----------------------------------------------------------------------------
(* isRetryableError on the errors an attempt can fail with *)

\* a code that is no number ('ECONNRESET', '401')
StringCode == -1

\* error.code and error.status: absent, a number, or (code only) a string
ErrorCodes == {None, 400, 401, 403, 404, 429, 500}

ErrorMessages ==
    {"", "quota exceeded", "API_KEY_INVALID",
     "API key not valid. Please pass a valid API key.",
     "Permission denied", "Empty response from Gemini API", "fetch failed",
     "Invalid API key", "models/gemini-x is Not Found"}

ThrownErrors ==
    [code : ErrorCodes \cup {StringCode}, status : ErrorCodes, message : ErrorMessages]

\* error.message || error.toString(), error.code || error.status
ErrorSeen(error) ==
    [code    |-> IF error.code # None THEN error.code ELSE error.status,
     message |-> IF error.message # "" THEN error.message ELSE "Error"]

ClassifyInit ==
    /\ SettingsIdle
    /\ ParamIdle
    /\ UsageIdle
    /\ handler = "edge"
    /\ request = [auth |-> "valid", bodyOk |-> TRUE, stream |-> FALSE]
    /\ streamingConfig = [enabled |-> TRUE, fake_stream_enabled |-> FALSE]
    /\ HandlerReturned
    /\ geminiKeys = KeyTable(NumKeys)
    /\ kvCache = <<>>
    /\ ChunkIdle
    /\ RealIdle
    /\ PoolIdle
    /\ ConvIdle
    /\ ModelsIdle
    /\ LogIdle
    /\ thrownError \in ThrownErrors
    /\ clPc = "start"
    /\ retryable = FALSE
    /\ loggedStatus = None

\* the catch block of an attempt: the log record of the failure
LogFailedAttempt ==
    /\ clPc = "start"
    /\ loggedStatus' = LogStatusCode(ErrorSeen(thrownError).message)
    /\ clPc' = "logged"
    /\ UNCHANGED <<thrownError, retryable>>
    /\ UNCHANGED nonClassifyVars

\* isRetryableError(error)
Classify ==
    /\ clPc = "logged"
    /\ retryable' = IsRetryableError(ErrorSeen(thrownError))
    /\ clPc' = "returned"
    /\ UNCHANGED <<thrownError, loggedStatus>>
    /\ UNCHANGED nonClassifyVars

ClassifyNext == LogFailedAttempt \/ Classify

ClassifySpec == ClassifyInit /\ [][ClassifyNext]_vars

\* the error has this number as its code or as its status
Carries(error, number) == error.code = number \/ error.status = number

\* C28: a failure is classified non-retryable only when the error carries
\* 401, or carries 403 with a message that contains neither 'API key' nor
\* 'API_KEY'; every other failure is retryable.
C28_NonRetryableOnly ==
    (clPc = "returned" /\ ~retryable) =>
        \/ Carries(thrownError, 401)
        \/ /\ Carries(thrownError, 403)
           /\ ~Includes(thrownError.message, "API key")
           /\ ~Includes(thrownError.message, "API_KEY")

\* a 403 whose message names the API key was classified retryable
C28_Witness ==
    /\ clPc = "returned"
    /\ retryable
    /\ thrownError.code = 403
    /\ thrownError.status = None
    /\ Includes(thrownError.message, "API key")

-----------------------------------------------------------------------------
(* C29 *)

\* the number of times the credential k was attempted
TimesTried(k) == Cardinality({i \in DOMAIN triedKeys : triedKeys[i] = k})

\* C29: updateKeyUsage is invoked once for every candidate attempted,
\* whatever the outcome and no later than the upstream call: at every moment
\* each credential has as many usage updates as attempts, and the request
\* issued as many usage updates as upstream calls.
C29_UsagePerAttempt ==
    /\ \A k \in KeyIds : usageCalls[k] = TimesTried(k)
    /\ UsageTotal = Len(upstreamCalls)
    /\ inflight # NoCall => usageCalls[inflight.key] >= 1

\* a failure, a non-retryable failure after it: two attempts, two updates
C29_Witness ==
    /\ pc = "done"
    /\ Len(upstreamResults) = 2
    /\ Failed(1) /\ Failed(2)
    /\ ~IsRetryableError(upstreamResults[2].error)
    /\ UsageTotal = 2

-----------------------------------------------------------------------------
(* C30 *)

\* C30: every attempt that ended has exactly one log record, with the id of
\* its credential and with status 200 exactly when it succeeded; at the end
\* of the request there are as many records as candidates attempted, at
\* most one of them with status 200.
C30_OneLogPerAttempt ==
    /\ Len(callLogs) = Len(upstreamResults)
    /\ \A i \in DOMAIN callLogs :
         /\ callLogs[i].gemini_key_id = triedKeys[i]
         /\ callLogs[i].response_status_code = 200 <=> ~Failed(i)
    /\ LoopLeft => Len(callLogs) = Len(triedKeys)
    /\ Cardinality({i \in DOMAIN callLogs :
                       callLogs[i].response_status_code = 200}) <= 1

\* records 401, 429 and 200 for three candidates, in this order
C30_Witness ==
    /\ pc = "done"
    /\ Len(callLogs) = 3
    /\ callLogs[1].response_status_code = 401
    /\ callLogs[2].response_status_code = 429
    /\ callLogs[3].response_status_code = 200
    /\ callLogs[1].gemini_key_id # callLogs[3].gemini_key_id

-----------------------------------------------------------------------------
(* C31 *)

\* C31: the status code of a failed attempt's log record is 429 for a
\* message containing 'quota', 401 for one containing 'API_KEY_INVALID' or
\* 'Invalid API key', 404 for one containing 'Not Found', and 500 for any
\* other message.
C31_LogStatusFromMessage ==
    clPc \in {"logged", "returned"} =>
        LET errorMsg == ErrorSeen(thrownError).message
        IN  loggedStatus =
                IF Includes(errorMsg, "quota") THEN 429
                ELSE IF \/ Includes(errorMsg, "API_KEY_INVALID")
                        \/ Includes(errorMsg, "Invalid API key") THEN 401
                ELSE IF Includes(errorMsg, "Not Found") THEN 404
                ELSE 500

-----------------------------------------------------------------------------
(* The usage counters: updateKeyUsage and the key test of the admin panel *)

\* what the key test's update of gemini_keys leaves alone
nonKeyTestVars == <<handlerVars, kvCache, chunkVars, realVars, poolVars, convVars,
                    modelsVars, logVars, classifyVars,
    paramVars,
    settingsVars>>

UsageInit ==
    /\ SettingsIdle
    /\ ParamIdle
    /\ handler = "edge"
    /\ request = [auth |-> "valid", bodyOk |-> TRUE, stream |-> FALSE]
    /\ streamingConfig = [enabled |-> TRUE, fake_stream_enabled |-> FALSE]
    /\ HandlerReturned
    /\ geminiKeys = KeyTable(NumKeys)
    /\ kvCache = <<>>
    /\ ChunkIdle
    /\ RealIdle
    /\ PoolIdle
    /\ ConvIdle
    /\ ModelsIdle
    /\ LogIdle
    /\ ClassifyIdle
    /\ requestCount = [k \in KeyIds |-> 0]
    /\ performed = [k \in KeyIds |-> 0]
    /\ usageRpcs = 0
    /\ ktPc = [t \in 1..NumKeyTests |-> "start"]
    /\ ktKey = [t \in 1..NumKeyTests |-> None]
    /\ ktSuccess = [t \in 1..NumKeyTests |-> FALSE]
    /\ ktCurrent = [t \in 1..NumKeyTests |-> 0]

\* request_count = request_count + 1, in one UPDATE statement
IncrementKeyRequestCount(counts, k) == [counts EXCEPT ![k] = @ + 1]

\* updateKeyUsage(keyId) of an attempt of some request
UpdateKeyUsage(k) ==
    /\ usageRpcs < MaxUsageRpcs
    /\ usageRpcs' = usageRpcs + 1
    /\ requestCount' = IncrementKeyRequestCount(requestCount, k)
    /\ performed' = [performed EXCEPT ![k] = @ + 1]
    /\ UNCHANGED <<ktPc, ktKey, ktSuccess, ktCurrent>>
    /\ UNCHANGED nonUsageVars

\* key test of the active key k: the select of request_count, after the
\* test call ended with success or without
KeyTestSelect(t, k) ==
    /\ ktPc[t] = "start"
    /\ geminiKeys[k].is_active
    /\ \E success \in BOOLEAN : ktSuccess' = [ktSuccess EXCEPT ![t] = success]
    /\ ktKey' = [ktKey EXCEPT ![t] = k]
    /\ ktCurrent' = [ktCurrent EXCEPT ![t] = requestCount[k]]
    /\ ktPc' = [ktPc EXCEPT ![t] = "selected"]
    /\ UNCHANGED <<requestCount, performed, usageRpcs>>
    /\ UNCHANGED nonUsageVars

\* key test: the update of request_count, last_used_at and is_valid
KeyTestUpdate(t) ==
    /\ ktPc[t] = "selected"
    /\ requestCount' = [requestCount EXCEPT ![ktKey[t]] = ktCurrent[t] + 1]
    /\ performed' = [performed EXCEPT ![ktKey[t]] = @ + 1]
    /\ geminiKeys' = [geminiKeys EXCEPT ![ktKey[t]].is_valid = ktSuccess[t]]
    /\ ktPc' = [ktPc EXCEPT ![t] = "done"]
    /\ UNCHANGED <<usageRpcs, ktKey, ktSuccess, ktCurrent>>
    /\ UNCHANGED nonKeyTestVars

UsageNext ==
    \/ \E k \in KeyIds : UpdateKeyUsage(k)
    \/ \E t \in 1..NumKeyTests, k \in KeyIds : KeyTestSelect(t, k)
    \/ \E t \in 1..NumKeyTests : KeyTestUpdate(t)

UsageSpec == UsageInit /\ [][UsageNext]_vars

\* C32: the stored counter of every credential equals the number of
\* increments performed on it, by updateKeyUsage and by the key test of the
\* admin panel, under every interleaving: no update is lost.
C32_NoLostIncrement ==
    \A k \in KeyIds : requestCount[k] = performed[k]

-----------------------------------------------------------------------------
(* C33 *)

\* what a compensating action would write
compensationVars == <<geminiKeys, kvCache, callLogs, invalidated, usageCalls,
                      upstreamCalls, res>>

-----------------------------------------------------------------------------
(* C34 *)

\* the cut at the 0-based position pos of text falls between the two code
\* units of one code point
SplitsCharacter(text, pos) ==
    /\ 0 < pos
    /\ pos < Len(text)
    /\ text[pos] = "hi"
    /\ text[pos + 1] = "lo"

\* C34: in fake-stream mode no cut position lies between the two code units
\* of one non-ASCII code point, and no emitted chunk ends or starts with one
\* half of a character.
C34_NoSplitCharacter ==
    /\ ~SplitsCharacter(fullText, currentIndex)
    /\ \A i \in DOMAIN emitted : WellFormed(emitted[i])

-----------------------------------------------------------------------------
(* The generation parameters of convertOpenAItoGemini *)

\* max_tokens || 2048
DefaultMaxTokens == 2048

\* temperature || 0.7, in tenths
DefaultTemperature == 7

\* max_tokens of a request
TokenLimits == {Undefined, 1, 256, 2048, 4096, 8192}

\* temperature of a request, in tenths
Temperatures == {Undefined} \cup 0..MaxTemperature

\* a || b on a number that may be absent: undefined and 0 are falsy
OrElse(value, default) ==
    IF value = Undefined \/ value = 0 THEN default ELSE value

\* generationConfig of the upstream request
GenerationConfig(maxTokens, temp) ==
    [maxOutputTokens |-> OrElse(maxTokens, DefaultMaxTokens),
     temperature     |-> OrElse(temp, DefaultTemperature)]

ParamInit ==
    /\ SettingsIdle
    /\ handler = "edge"
    /\ request = [auth |-> "valid", bodyOk |-> TRUE, stream |-> FALSE]
    /\ streamingConfig = [enabled |-> TRUE, fake_stream_enabled |-> FALSE]
    /\ HandlerReturned
    /\ geminiKeys = KeyTable(NumKeys)
    /\ kvCache = <<>>
    /\ ChunkIdle
    /\ RealIdle
    /\ PoolIdle
    /\ ConvIdle
    /\ ModelsIdle
    /\ LogIdle
    /\ ClassifyIdle
    /\ UsageIdle
    /\ max_tokens \in TokenLimits
    /\ temperature \in Temperatures
    /\ generationConfig = [maxOutputTokens |-> Undefined, temperature |-> Undefined]
    /\ gcPc = "start"

\* convertOpenAItoGemini builds generationConfig
BuildGenerationConfig ==
    /\ gcPc = "start"
    /\ generationConfig' = GenerationConfig(max_tokens, temperature)
    /\ gcPc' = "built"
    /\ UNCHANGED <<max_tokens, temperature>>
    /\ UNCHANGED nonParamVars

ParamNext == BuildGenerationConfig

ParamSpec == ParamInit /\ [][ParamNext]_vars

\* C35: a request without max_tokens gets 2048 and one without temperature
\* gets 0.7; every value the caller supplies, temperature 0 included, is
\* passed to the upstream unchanged.
C35_DefaultsOnlyWhenAbsent ==
    gcPc = "built" =>
        /\ generationConfig.maxOutputTokens =
               IF max_tokens = Undefined THEN DefaultMaxTokens ELSE max_tokens
        /\ generationConfig.temperature =
               IF temperature = Undefined THEN DefaultTemperature ELSE temperature

-----------------------------------------------------------------------------
(* C36 *)

\* C36: no step of the handling of a chat-completion request removes a row
\* of gemini_keys or changes its active flag; the valid flag changes only
\* from true to false.
C36_DispatchKeepsCredentials ==
    [][/\ DOMAIN geminiKeys' = DOMAIN geminiKeys
       /\ \A k \in KeyIds :
            /\ geminiKeys'[k].is_active = geminiKeys[k].is_active
            /\ geminiKeys'[k].is_valid => geminiKeys[k].is_valid]_vars

\* a credential was used, counted and invalidated, and is still active
C36_Witness ==
    /\ pc = "done"
    /\ \E k \in invalidated :
         /\ ~geminiKeys[k].is_valid
         /\ geminiKeys[k].is_active
         /\ usageCalls[k] = 1

-----------------------------------------------------------------------------
(* The settings endpoint: PUT of admin/settings and the settings manager *)

SettingsInit ==
    /\ handler = "edge"
    /\ request = [auth |-> "valid", bodyOk |-> TRUE, stream |-> FALSE]
    /\ streamingConfig = [enabled |-> TRUE, fake_stream_enabled |-> FALSE]
    /\ HandlerReturned
    /\ geminiKeys = KeyTable(NumKeys)
    /\ kvCache = <<>>
    /\ ChunkIdle
    /\ RealIdle
    /\ PoolIdle
    /\ ConvIdle
    /\ ModelsIdle
    /\ LogIdle
    /\ ClassifyIdle
    /\ UsageIdle
    /\ ParamIdle
    /\ SettingsIdle

\* a validation that lets both modes through (faulty variant)
ValidationError_NoExclusion(body) ==
    \/ body.enabled = "other"
    \/ body.fake_stream_enabled = "other"
    \/ body.disguise_enabled = "other"

\* whether the PUT handler throws ApiError(400): a field that is no boolean,
\* or enabled and fake_stream_enabled both true
ValidationError(body) ==
    \/ body.enabled = "other"
    \/ body.fake_stream_enabled = "other"
    \/ body.disguise_enabled = "other"
    \/ body.enabled = "true" /\ body.fake_stream_enabled = "true"

\* a PUT arrives: the validation; a rejected request is answered at once
PutValidate ==
    /\ stPc = "idle"
    /\ putsDone < MaxPuts
    /\ \E body \in [enabled : Flags, fake_stream_enabled : Flags,
                    disguise_enabled : Flags] :
         /\ stBody' = body
         /\ IF ValidationError(body)
            THEN /\ stStatus' = 400
                 /\ stPc' = "responded"
            ELSE /\ stStatus' = None
                 /\ stPc' = "streaming"
    /\ stBefore' = systemSettings
    /\ streamingSuccess' = FALSE
    /\ UNCHANGED <<systemSettings, putsDone>>
    /\ UNCHANGED nonSettingsVars

\* updateStreamingConfig: one upsert of the whole value, which may fail
PutUpdateStreaming ==
    /\ stPc = "streaming"
    /\ \E ok \in BOOLEAN :
         /\ streamingSuccess' = ok
         /\ systemSettings' =
              IF ok
              THEN [systemSettings EXCEPT !.streaming_config =
                       [enabled |-> stBody.enabled = "true",
                        fake_stream_enabled |-> stBody.fake_stream_enabled = "true"]]
              ELSE systemSettings
    /\ stPc' = "disguise"
    /\ UNCHANGED <<putsDone, stBody, stBefore, stStatus>>
    /\ UNCHANGED nonSettingsVars

\* updateDisguiseEnabled: one upsert, which may fail; then the response,
\* 500 when one of the two updates failed
PutUpdateDisguise ==
    /\ stPc = "disguise"
    /\ \E ok \in BOOLEAN :
         /\ systemSettings' =
              IF ok
              THEN [systemSettings EXCEPT !.disguise_enabled = stBody.disguise_enabled]
              ELSE systemSettings
         /\ stStatus' = IF ~streamingSuccess \/ ~ok THEN 500 ELSE 200
    /\ stPc' = "responded"
    /\ UNCHANGED <<putsDone, stBody, stBefore, streamingSuccess>>
    /\ UNCHANGED nonSettingsVars

\* the handler returned; the endpoint serves the next request
PutReturn ==
    /\ stPc = "responded"
    /\ stPc' = "idle"
    /\ putsDone' = putsDone + 1
    /\ UNCHANGED <<systemSettings, stBody, stBefore, streamingSuccess, stStatus>>
    /\ UNCHANGED nonSettingsVars

SettingsNext ==
    \/ PutValidate
    \/ PutUpdateStreaming
    \/ PutUpdateDisguise
    \/ PutReturn

SettingsSpec == SettingsInit /\ [][SettingsNext]_vars

\* C37: from the default configuration on, the stored streaming configuration
\* never has both flags true, and an update that asks for both is answered
\* with 400 and changes no setting.
C37_ModesExclusive ==
    /\ ~(/\ systemSettings.streaming_config.enabled
         /\ systemSettings.streaming_config.fake_stream_enabled)
    /\ (/\ stPc # "idle"
        /\ stBody.enabled = "true"
        /\ stBody.fake_stream_enabled = "true") =>
           /\ stPc = "responded"
           /\ stStatus = 400
           /\ systemSettings = stBefore

\* an update asking for both modes was rejected after an earlier update had
\* switched the configuration to fake streaming
C37_Witness ==
    /\ stPc = "responded"
    /\ putsDone = 1
    /\ stBody = [enabled |-> "true", fake_stream_enabled |-> "true",
                 disguise_enabled |-> "false"]
    /\ stStatus = 400
    /\ systemSettings.streaming_config =
           [enabled |-> FALSE, fake_stream_enabled |-> TRUE]

\* C39: a settings update answered with 400 or 500 leaves the stored
\* streaming configuration and the stored disguise flag as they were before
\* the call.
C39_FailedUpdateChangesNothing ==
    (stPc = "responded" /\ stStatus \in {400, 500}) => systemSettings = stBefore

-----------------------------------------------------------------------------
(* C38 *)

\* attempt i of an edge handler streamed for real and its upstream stream
\* broke after handleRealStream had returned the response
BrokeAfterReturn(i) ==
    /\ handler \in {"edge", "edge2"}
    /\ upstreamCalls[i].strategy = "real"
    /\ upstreamResults[i].kind = "midstream"

\* C38: in the edge handlers' real-stream mode an upstream error raised
\* after handleRealStream returned leaves the attempt recorded with status
\* 200, starts no attempt with another credential and adds no record; the
\* response returned is the stream, which is closed.
C38_NoFailoverOnceStreaming ==
    \A i \in DOMAIN upstreamResults :
        BrokeAfterReturn(i) =>
            /\ ~Failed(i)
            /\ callLogs[i].response_status_code = 200
            /\ Len(upstreamCalls) = i
            /\ Len(callLogs) = i
            /\ inflight = NoCall
            /\ invalidated \cap {upstreamResults[i].key} = {}
            /\ pc = "done"
            /\ res = SseResponse("stream", TRUE)

\* the first candidate failed, the second one's stream broke after the
\* response was returned, the third was never tried
C38_Witness ==
    /\ handler = "edge"
    /\ pc = "done"
    /\ Len(shuffledKeys) = 3
    /\ Len(upstreamResults) = 2
    /\ Failed(1)
    /\ BrokeAfterReturn(2)
    /\ callLogs[1].response_status_code = 429
    /\ callLogs[2].response_status_code = 200

\* the frames of a real stream of an edge handler whose upstream stream
\* threw: the response is closed with the finish chunk and [DONE]
ClosedAfterStreamError ==
    (rsVariant \in {"edge", "edge2"} /\ rsEnd = "throws" /\ ~rsCancelled) =>
        LET n == Len(rsFrames)
        IN  /\ rsPc = "closed"
            /\ n >= 2
            /\ rsFrames[n - 1] = FinishFrame
            /\ rsFrames[n] = DoneFrame

-----------------------------------------------------------------------------
(* C40 *)

\* C40: the handler never iterates an empty list of candidates, and when it
\* reaches the code after the loop without a success at least one candidate
\* was attempted and lastError is the failure of the last attempt, never
\* null.
C40_ExhaustionHasFailure ==
    /\ pc \in {"loop", "exhausted"} =>
          /\ Len(availableKeys) > 0
          /\ Len(shuffledKeys) = Len(availableKeys)
    /\ pc = "exhausted" =>
          /\ Len(triedKeys) >= 1
          /\ Len(upstreamResults) = Len(triedKeys)
          /\ Failed(Len(upstreamResults))
          /\ lastError # NoError
          /\ lastError = upstreamResults[Len(upstreamResults)].error

\* the only eligible credential failed and the loop was left
C40_Witness ==
    /\ pc = "exhausted"
    /\ Len(shuffledKeys) = 1
    /\ triedKeys = shuffledKeys
    /\ lastError = QuotaError

\* no call of getAllAvailableGeminiKeys returns an empty list, and none
\* reaches kv.setex with one, under every interleaving with invalidations and
\* admin updates
LoaderNeverReturnsEmpty ==
    \A l \in Loaders :
        /\ ldResult[l].kind = "keys" => Len(ldResult[l].keys) > 0
        /\ ldPc[l] = "setex" => Len(ldKeys[l]) > 0

=============================================================================
